---- MODULE Spec2Model ----
(***************************************************************************)
(* A state-machine model of the agent framework: the fallback LLM client   *)
(* (src/fallback_llm.py), the agent base class (src/agents), the tool      *)
(* contract and the system tools (src/tools).  Each component has its own  *)
(* variables and its own specification; a component's actions leave the    *)
(* other components' variables unchanged.                                   *)
(***************************************************************************)
EXTENDS Integers, Sequences, FiniteSets, TLC

VARIABLES
    \* ---- FallbackLLMClient (src/fallback_llm.py)
    call_counter,      \* self.call_counter
    log_exists,        \* self.log_file.exists()
    log_lines,         \* the complete lines of the call-log file, in file order
    log_partial,       \* TRUE when the file ends in an unterminated partial line
    fb_calls,          \* history of the calls made: who answered, how the log write went
    fb_last,           \* what the last _generate_single call did and returned
    \* ---- BaseAgent (src/agents/base_agent.py)
    agent_name,        \* self.agent_name
    message_history,   \* self.message_history
    state,             \* self.state
    on_state_change_callbacks,   \* self.on_state_change_callbacks
    ag_clock,          \* how many identifiers and timestamps were generated so far
    ag_appended,       \* the messages handed to add_message_to_history, in call order
    ag_set,            \* what the last set_state call was given and which callbacks it fired
    \* ---- BaseTool and its subclasses (src/tools)
    tl_resp,           \* the ToolResponse the last execution returned
    tl_call,           \* what the last execution was given and what it did
    \* ---- CommandExecutionTool (src/tools/system_tools.py)
    allowed_commands,  \* the allowlist, a set of lower-cased names
    cmd_call,          \* the last _execute call: its command and whether a subprocess ran
    \* ---- FileSystemTool (src/tools/system_tools.py)
    allowed_paths,     \* the allowlist, a list of normalised absolute paths
    fs_call,           \* the last _execute call: its operation, path and what it touched
    \* ---- UserAgent (src/agents/user_agent.py)
    ua_username,         \* self.username of the exporting agent
    ua_interaction_mode, \* self.interaction_mode
    ua_state,            \* self.state
    ua_history,          \* self.message_history
    ua_clock,            \* number of ids and timestamps handed out so far
    ua_file,             \* the file at the export path
    ua_export,           \* the last export_conversation_history call and the agent at that time
    ua_fresh,            \* a fresh UserAgent after import_conversation_history
    ua_reply,            \* the last process_message call: its message, handler and reply
    \* ---- ToolFunctionRegistry (src/tools/tool_functions.py)
    tool_functions,    \* self._tool_functions, a dict kept as its list of items
    tool_metadata,     \* self._tool_metadata
    reg_call,          \* the last registry call and the registry before it
    \* ---- LLMAgent (src/agents/llm_agent.py)
    llm_model_type,    \* self.model_type
    llm_model_config,  \* the keys of self.model_config, the dict the client shares
    llm_client,        \* self.model_client: "None" or the provider of the client
    llm_state,         \* self.state
    llm_history,       \* self.message_history
    llm_call,          \* the last call on the agent and what it did
    \* ---- DoubaoClient (src/model_clients/doubao_client.py)
    db_access_token,   \* self.access_token: "None" or a token
    db_call,           \* the last call on the client: what it sent and returned
    \* ---- several FallbackLLMClient instances in one project directory
    mc_now,            \* datetime.now(), in ticks of a fraction of a second
    mc_clients,        \* the clients constructed so far: log_file and call_counter
    mc_files,          \* the files of logs/llm_calls: file name -> records appended
    \* ---- math_calculator(expression=..) (src/tools/tool_functions.py)
    calc_call,         \* the last call: the expression, whether eval ran, the result
    \* ---- text_extractor(text, extract_type='email') (src/tools/tool_functions.py)
    ex_call,           \* the last call: the text and the result returned
    \* ---- BaseAgent callbacks (src/agents/base_agent.py)
    on_message_callbacks,   \* self.on_message_callbacks
    on_error_callbacks,     \* self.on_error_callbacks
    cb_registered,     \* the callbacks handed to the register operations, per kind
    cb_event,          \* the last message, error or state event and the callbacks it called
    \* ---- an agent of one of the three kinds and its error handling
    op_kind,           \* the class of the agent
    op_ready,          \* self.state['ready']
    op_error,          \* self.state['error']
    op_callbacks,      \* self.on_error_callbacks
    op_call,           \* the last process_message / generate_response call and how it ended
    \* ---- process_message calls in flight on one LLM agent
    cv_ready,          \* self.state['ready']
    cv_error,          \* self.state['error']
    cv_history,        \* self.message_history
    cv_owner,          \* for each entry of the history, the call that appended it
    cv_calls,          \* each call: where it stands, its message, how it ended
    cv_started,        \* the calls in the order they started
    cv_uuid,           \* the identifiers and timestamps handed out so far
    \* ---- a ToolAgent
    ta_registry,       \* the names in self.tools_registry, in the order of the dict
    ta_available,      \* self.state['available_tools']
    ta_error,          \* self.state['error']
    ta_history,        \* self.message_history (role and tool_name of each entry)
    ta_call,           \* the last operation, what it was given and what it did
    \* ---- a MultiAgentSystem answering one query
    ms_system,         \* the class of the system
    ms_reply,          \* the coordinator's first reply
    ms_pc,             \* how far process_query has come
    ms_log,            \* the entries process_query added to self.conversation_history
    ms_calls,          \* the agents whose process_message was called, in order
    ms_responses,      \* the keys of expert_responses
    ms_final,          \* final_response
    \* ---- the call log of a FallbackLLMClient with the providers' usage
    tk_lines,          \* the records of the log file
    tk_reported,       \* usage.total_tokens of the provider that answered each successful call
    tk_stats,          \* the last get_call_statistics(): its total_tokens
    \* ---- the tool registry of tool_functions.py and a ToolSet
    fr_registry,       \* the names in tool_registry._tool_functions
    fr_tools,          \* the keys of ToolSet.tools
    fr_call,           \* the last operation and what it returned
    \* ---- a WebTool and its HTTP session
    ws_session,        \* self._session: the session it refers to, or none
    ws_open,           \* the sessions the tool created that are not closed
    ws_created,        \* how many sessions the tool created
    ws_timeout,        \* self.http_config['timeout']
    ws_call            \* the last call: the session before it and what it returned

fbVars == <<call_counter, log_exists, log_lines, log_partial, fb_calls, fb_last>>

agVars == <<agent_name, message_history, state, on_state_change_callbacks,
            ag_clock, ag_appended, ag_set>>

tlVars == <<tl_resp, tl_call>>

cmdVars == <<allowed_commands, cmd_call>>

fsVars == <<allowed_paths, fs_call>>

uaVars == <<ua_username, ua_interaction_mode, ua_state, ua_history, ua_clock, ua_file,
           ua_export, ua_fresh, ua_reply>>

regVars == <<tool_functions, tool_metadata, reg_call>>

llmVars == <<llm_model_type, llm_model_config, llm_client, llm_state, llm_history, llm_call>>

dbVars == <<db_access_token, db_call>>

mcVars == <<mc_now, mc_clients, mc_files>>

calcVars == <<calc_call>>
exVars == <<ex_call>>
cbVars == <<on_message_callbacks, on_error_callbacks, cb_registered, cb_event>>
opVars == <<op_kind, op_ready, op_error, op_callbacks, op_call>>
cvVars == <<cv_ready, cv_error, cv_history, cv_owner, cv_calls, cv_started, cv_uuid>>
taVars == <<ta_registry, ta_available, ta_error, ta_history, ta_call>>
msVars == <<ms_system, ms_reply, ms_pc, ms_log, ms_calls, ms_responses, ms_final>>
tkVars == <<tk_lines, tk_reported, tk_stats>>
frVars == <<fr_registry, fr_tools, fr_call>>
wsVars == <<ws_session, ws_open, ws_created, ws_timeout, ws_call>>

vars == <<fbVars, agVars, tlVars, cmdVars, fsVars, uaVars, regVars, llmVars, dbVars, mcVars,
          calcVars, exVars, cbVars, opVars, cvVars, taVars, msVars, tkVars, frVars,
          wsVars>>

\* The variables of the other components, which a step of one component
\* leaves alone.
notFb == <<agVars, tlVars, cmdVars, fsVars, uaVars, regVars, llmVars, dbVars, mcVars, calcVars, exVars, cbVars, opVars, cvVars, taVars, msVars, tkVars, frVars, wsVars>>
notAg == <<fbVars, tlVars, cmdVars, fsVars, uaVars, regVars, llmVars, dbVars, mcVars, calcVars, exVars, cbVars, opVars, cvVars, taVars, msVars, tkVars, frVars, wsVars>>
notTl == <<fbVars, agVars, cmdVars, fsVars, uaVars, regVars, llmVars, dbVars, mcVars, calcVars, exVars, cbVars, opVars, cvVars, taVars, msVars, tkVars, frVars, wsVars>>
notCmd == <<fbVars, agVars, tlVars, fsVars, uaVars, regVars, llmVars, dbVars, mcVars, calcVars, exVars, cbVars, opVars, cvVars, taVars, msVars, tkVars, frVars, wsVars>>
notFs == <<fbVars, agVars, tlVars, cmdVars, uaVars, regVars, llmVars, dbVars, mcVars, calcVars, exVars, cbVars, opVars, cvVars, taVars, msVars, tkVars, frVars, wsVars>>
notUa == <<fbVars, agVars, tlVars, cmdVars, fsVars, regVars, llmVars, dbVars, mcVars, calcVars, exVars, cbVars, opVars, cvVars, taVars, msVars, tkVars, frVars, wsVars>>
notReg == <<fbVars, agVars, tlVars, cmdVars, fsVars, uaVars, llmVars, dbVars, mcVars, calcVars, exVars, cbVars, opVars, cvVars, taVars, msVars, tkVars, frVars, wsVars>>
notLlm == <<fbVars, agVars, tlVars, cmdVars, fsVars, uaVars, regVars, dbVars, mcVars, calcVars, exVars, cbVars, opVars, cvVars, taVars, msVars, tkVars, frVars, wsVars>>
notDb == <<fbVars, agVars, tlVars, cmdVars, fsVars, uaVars, regVars, llmVars, mcVars, calcVars, exVars, cbVars, opVars, cvVars, taVars, msVars, tkVars, frVars, wsVars>>
notMc == <<fbVars, agVars, tlVars, cmdVars, fsVars, uaVars, regVars, llmVars, dbVars, calcVars, exVars, cbVars, opVars, cvVars, taVars, msVars, tkVars, frVars, wsVars>>
notCalc == <<fbVars, agVars, tlVars, cmdVars, fsVars, uaVars, regVars, llmVars, dbVars, mcVars, exVars, cbVars, opVars, cvVars, taVars, msVars, tkVars, frVars, wsVars>>
notEx == <<fbVars, agVars, tlVars, cmdVars, fsVars, uaVars, regVars, llmVars, dbVars, mcVars, calcVars, cbVars, opVars, cvVars, taVars, msVars, tkVars, frVars, wsVars>>
notCb == <<fbVars, agVars, tlVars, cmdVars, fsVars, uaVars, regVars, llmVars, dbVars, mcVars, calcVars, exVars, opVars, cvVars, taVars, msVars, tkVars, frVars, wsVars>>
notAgCb == <<fbVars, tlVars, cmdVars, fsVars, uaVars, regVars, llmVars, dbVars, mcVars, calcVars, exVars, opVars, cvVars, taVars, msVars, tkVars, frVars, wsVars>>
notOp == <<fbVars, agVars, tlVars, cmdVars, fsVars, uaVars, regVars, llmVars, dbVars, mcVars, calcVars, exVars, cbVars, cvVars, taVars, msVars, tkVars, frVars, wsVars>>
notCv == <<fbVars, agVars, tlVars, cmdVars, fsVars, uaVars, regVars, llmVars, dbVars, mcVars, calcVars, exVars, cbVars, opVars, taVars, msVars, tkVars, frVars, wsVars>>
notTa == <<fbVars, agVars, tlVars, cmdVars, fsVars, uaVars, regVars, llmVars, dbVars, mcVars, calcVars, exVars, cbVars, opVars, cvVars, msVars, tkVars, frVars, wsVars>>
notMs == <<fbVars, agVars, tlVars, cmdVars, fsVars, uaVars, regVars, llmVars, dbVars, mcVars, calcVars, exVars, cbVars, opVars, cvVars, taVars, tkVars, frVars, wsVars>>
notTk == <<fbVars, agVars, tlVars, cmdVars, fsVars, uaVars, regVars, llmVars, dbVars, mcVars, calcVars, exVars, cbVars, opVars, cvVars, taVars, msVars, frVars, wsVars>>
notFr == <<fbVars, agVars, tlVars, cmdVars, fsVars, uaVars, regVars, llmVars, dbVars, mcVars, calcVars, exVars, cbVars, opVars, cvVars, taVars, msVars, tkVars, wsVars>>
notWs == <<fbVars, agVars, tlVars, cmdVars, fsVars, uaVars, regVars, llmVars, dbVars, mcVars, calcVars, exVars, cbVars, opVars, cvVars, taVars, msVars, tkVars, frVars>>

\* ------------------------------------------------------------------------
\* Bounds of the model
\* ------------------------------------------------------------------------
MaxCalls == 3
MaxHistory == 3
MaxNumbers == 2
MaxCmdLen == 3
MaxPathLen == 3
MaxAllowed == 1
MaxUaHistory == 2
MaxLlmHistory == 2
MaxClients == 3
MaxTicks == 3
TicksPerSecond == 2
MaxClientCalls == 2
MaxExprLen == 5

\* ========================================================================
\* FallbackLLMClient
\* ========================================================================

\* The order the class docstring announces would put doubao before deepseek.
fallback_order_docstring == <<"doubao", "deepseek", "qwen">>

\* self.fallback_order
fallback_order == <<"deepseek", "doubao", "qwen">>

\* The order the specification states.
StatedOrder == <<"deepseek", "doubao", "qwen">>

Providers == {fallback_order[i] : i \in 1..Len(fallback_order)}

\* What one provider does when asked: the request raises ("fail"), or it
\* answers with message.content None or a text.
Contents == {"None", "b c"}
ProviderOutcomes == {"fail"} \cup Contents

\* How the append to the log file goes: written whole; open() raises and
\* nothing is written; json.dump raises after part of the record was written
\* (a value of kwargs that is not JSON-serialisable, a full disk).
WriteOutcomes == {"ok", "fail_open", "fail_partial"}

\* text = message.content or ""
ContentOrEmpty(c) == IF c = "None" THEN "" ELSE c

\* len(text.split())
WordCount(text) ==
    CASE text = ""    -> 0
      [] text = "b c" -> 2

\* tokens = list(range(len(text.split())))
TokensOf(text) == [i \in 1..WordCount(text) |-> i - 1]

\* log_probs = [0.5] * len(tokens)
LogProbsOf(text) == [i \in 1..WordCount(text) |-> "0.5"]

FallbackText == "sorry"   \* the literal placeholder reply of line 223

FallbackTriple == [text |-> FallbackText, tokens |-> <<0>>, log_probs |-> <<"0.0">>]

CorruptLine == [valid |-> FALSE, call_id |-> 0, attempts |-> <<>>,
                final_result |-> [success |-> FALSE, used_api |-> "none"]]

\* _log_llm_call without its try/except: a failed write propagates.
LogLlmCallUncaught(file, rec, w) ==
    CASE w = "ok" ->
           [exists |-> TRUE,
            lines |-> Append(file.lines, IF file.partial THEN CorruptLine ELSE rec),
            partial |-> FALSE, raised |-> FALSE]
      [] w = "fail_partial" ->
           [exists |-> TRUE, lines |-> file.lines, partial |-> TRUE, raised |-> TRUE]
      [] w = "fail_open" ->
           [exists |-> file.exists, lines |-> file.lines, partial |-> file.partial,
            raised |-> TRUE]

\* _log_llm_call: append one JSON line; every exception is swallowed.
\* Returns the file after the call and whether the call raised.
LogLlmCall(file, rec, w) ==
    CASE w = "ok" ->
           [exists |-> TRUE,
            lines |-> Append(file.lines, IF file.partial THEN CorruptLine ELSE rec),
            partial |-> FALSE, raised |-> FALSE]
      [] w = "fail_partial" ->
           [exists |-> TRUE, lines |-> file.lines, partial |-> TRUE, raised |-> FALSE]
      [] w = "fail_open" ->
           [exists |-> file.exists, lines |-> file.lines, partial |-> file.partial,
            raised |-> FALSE]

AttemptData(api, ok, err) == [api_name |-> api, success |-> ok, error |-> err]

LogData(id, attempts, ok, used) ==
    [valid |-> TRUE, call_id |-> id, attempts |-> attempts,
     final_result |-> [success |-> ok, used_api |-> used]]

\* The loop of _generate_single from provider number i on.  c carries the
\* attempts recorded so far, the providers called so far, the log file and the
\* number of _log_llm_call invocations.
RECURSIVE GenerateFrom(_, _, _, _, _)
\* The except branch (lines 205-224) for provider number i.
GenerateExcept(i, id, out, w, c) ==
    IF fallback_order[i] = fallback_order[Len(fallback_order)]
    THEN LET rec == LogData(id, c.attempts, FALSE, "none")
             lw  == LogLlmCall(c.file, rec, w)
         IN  [ret |-> IF lw.raised THEN [text |-> "", tokens |-> <<>>, log_probs |-> <<>>]
                      ELSE FallbackTriple,
              returned |-> ~lw.raised, raised |-> lw.raised,
              called |-> c.called, file |-> lw, nlog |-> c.nlog + 1, record |-> rec]
    ELSE GenerateFrom(i + 1, id, out, w, c)

GenerateFrom(i, id, out, w, c) ==
    IF i > Len(fallback_order)
    THEN \* the loop ended without a return: the function returns None
         [ret |-> [text |-> "", tokens |-> <<>>, log_probs |-> <<>>],
          returned |-> FALSE, raised |-> FALSE,
          called |-> c.called, file |-> c.file, nlog |-> c.nlog,
          record |-> LogData(id, c.attempts, FALSE, "none")]
    ELSE LET api    == fallback_order[i]
             called == Append(c.called, api)
         IN  IF out[api] # "fail"
             THEN LET text == ContentOrEmpty(out[api])
                      atts == Append(c.attempts, AttemptData(api, TRUE, FALSE))
                      rec  == LogData(id, atts, TRUE, api)
                      lw   == LogLlmCall(c.file, rec, w)
                  IN  IF lw.raised
                      THEN \* an exception inside the try block lands in the
                           \* except branch, which records the attempt again
                           GenerateExcept(i, id, out, w,
                               [attempts |-> Append(atts, AttemptData(api, TRUE, TRUE)),
                                called |-> called, file |-> lw, nlog |-> c.nlog + 1])
                      ELSE [ret |-> [text |-> text, tokens |-> TokensOf(text),
                                     log_probs |-> LogProbsOf(text)],
                            returned |-> TRUE, raised |-> FALSE,
                            called |-> called, file |-> lw, nlog |-> c.nlog + 1,
                            record |-> rec]
             ELSE GenerateExcept(i, id, out, w,
                      [attempts |-> Append(c.attempts, AttemptData(api, FALSE, TRUE)),
                       called |-> called, file |-> c.file, nlog |-> c.nlog])

\* The position in the stated order of the first provider that succeeds
\* (0 when none does), and that provider.
FirstSucceedingIndex(out) ==
    IF \E i \in 1..Len(StatedOrder) : out[StatedOrder[i]] # "fail"
    THEN CHOOSE i \in 1..Len(StatedOrder) :
             /\ out[StatedOrder[i]] # "fail"
             /\ \A j \in 1..(i - 1) : out[StatedOrder[j]] = "fail"
    ELSE 0

FirstSucceeding(out) ==
    IF FirstSucceedingIndex(out) = 0 THEN "none"
    ELSE StatedOrder[FirstSucceedingIndex(out)]

NoCall == [done |-> FALSE, out |-> [p \in Providers |-> "fail"], write |-> "ok",
           ret |-> [text |-> "", tokens |-> <<>>, log_probs |-> <<>>],
           returned |-> FALSE, raised |-> FALSE, called |-> <<>>, nlog |-> 0,
           record |-> LogData(0, <<>>, FALSE, "none"), lines_before |-> 0,
           partial_before |-> FALSE]

FbInit ==
    /\ call_counter = 0
    /\ log_exists = FALSE
    /\ log_lines = <<>>
    /\ log_partial = FALSE
    /\ fb_calls = <<>>
    /\ fb_last = NoCall

\* One _generate_single(prompt, **kwargs) call.
GenerateSingle(out, w) ==
    /\ call_counter < MaxCalls
    /\ LET id == call_counter + 1
           r  == GenerateFrom(1, id, out, w,
                     [attempts |-> <<>>, called |-> <<>>,
                      file |-> [exists |-> log_exists, lines |-> log_lines,
                                partial |-> log_partial],
                      nlog |-> 0])
       IN  /\ call_counter' = id
           /\ log_exists' = r.file.exists
           /\ log_lines' = r.file.lines
           /\ log_partial' = r.file.partial
           /\ fb_calls' = Append(fb_calls, [used |-> FirstSucceeding(out), write |-> w])
           /\ fb_last' = [done |-> TRUE, out |-> out, write |-> w, ret |-> r.ret,
                          returned |-> r.returned, raised |-> r.raised,
                          called |-> r.called, nlog |-> r.nlog, record |-> r.record,
                          lines_before |-> Len(log_lines),
                          partial_before |-> log_partial]

FbNext == \E out \in [Providers -> ProviderOutcomes], w \in WriteOutcomes :
              GenerateSingle(out, w) /\ UNCHANGED notFb

\* ---- get_call_statistics -------------------------------------------------

EmptyMap == [x \in {} |-> 0]

\* stats["api_usage"][used_api] = stats["api_usage"].get(used_api, 0) + 1
Incremented(usage, api) ==
    [q \in DOMAIN usage \cup {api} |->
        IF q = api THEN (IF api \in DOMAIN usage THEN usage[api] + 1 ELSE 1)
        ELSE usage[q]]

\* A loop body that counts every record as a success of its last attempt.
StatsStepNoFailures(stats, line) ==
    [total_calls |-> stats.total_calls + 1,
     successful_calls |-> stats.successful_calls + 1,
     failed_calls |-> stats.failed_calls,
     api_usage |-> Incremented(stats.api_usage,
                       line.attempts[Len(line.attempts)].api_name)]

\* The body of the loop over the lines (lines 254-265) for one parsed record.
StatsStep(stats, line) ==
    IF line.final_result.success
    THEN [total_calls |-> stats.total_calls + 1,
          successful_calls |-> stats.successful_calls + 1,
          failed_calls |-> stats.failed_calls,
          api_usage |-> Incremented(stats.api_usage, line.final_result.used_api)]
    ELSE [total_calls |-> stats.total_calls + 1,
          successful_calls |-> stats.successful_calls,
          failed_calls |-> stats.failed_calls + 1,
          api_usage |-> stats.api_usage]

\* The loop: json.loads raises on a line that is not one JSON record, the
\* except clause ends the loop and the counts so far are kept.
RECURSIVE StatsLoop(_, _, _)
StatsLoop(stats, lines, i) ==
    IF i > Len(lines) THEN stats
    ELSE IF ~lines[i].valid THEN stats
    ELSE StatsLoop(StatsStep(stats, lines[i]), lines, i + 1)

\* get_call_statistics(): without a log file only two keys are returned.
\* (average_duration_ms and total_tokens are left out: durations and provider
\* usage are not part of this model.)
get_call_statistics ==
    IF ~log_exists
    THEN [has_counts |-> FALSE, total_calls |-> 0, successful_calls |-> 0,
          failed_calls |-> 0, api_usage |-> EmptyMap]
    ELSE LET st == StatsLoop([total_calls |-> 0, successful_calls |-> 0,
                              failed_calls |-> 0, api_usage |-> EmptyMap],
                             log_lines, 1)
         IN  [has_counts |-> TRUE, total_calls |-> st.total_calls,
              successful_calls |-> st.successful_calls,
              failed_calls |-> st.failed_calls, api_usage |-> st.api_usage]

RECURSIVE SumOver(_, _)
SumOver(f, S) ==
    IF S = {} THEN 0
    ELSE LET x == CHOOSE y \in S : TRUE IN f[x] + SumOver(f, S \ {x})

\* ---- Claims about the fallback client -------------------------------------

\* The attempts of a record name the first k providers of the stated order,
\* all failed but the last, which succeeded.
IsSuccessPrefix(attempts, k) ==
    /\ Len(attempts) = k
    /\ \A j \in 1..k :
          /\ attempts[j].api_name = StatedOrder[j]
          /\ attempts[j].success = (j = k)

\* What the write of the call did to the log file: one line more when the
\* write went through (the record itself unless it was glued to an earlier
\* partial line), no line more when it failed.
LogGrewByCall ==
    IF fb_last.write = "ok"
    THEN /\ Len(log_lines) = fb_last.lines_before + 1
         /\ ~fb_last.partial_before => log_lines[Len(log_lines)] = fb_last.record
    ELSE Len(log_lines) = fb_last.lines_before

C2_AllFailReturnsPlaceholder ==
    (fb_last.done /\ \A p \in Providers : fb_last.out[p] = "fail") =>
        /\ ~fb_last.raised
        /\ fb_last.returned
        /\ fb_last.ret = [text |-> FallbackText, tokens |-> <<0>>, log_probs |-> <<"0.0">>]
        /\ fb_last.nlog = 1
        /\ Len(fb_last.record.attempts) = Len(StatedOrder)
        /\ \A j \in 1..Len(StatedOrder) :
              /\ fb_last.record.attempts[j].api_name = StatedOrder[j]
              /\ ~fb_last.record.attempts[j].success
        /\ ~fb_last.record.final_result.success
        /\ LogGrewByCall

\* Every provider failed and the write of the log record failed as well.
C2_Witness ==
    /\ fb_last.done
    /\ \A p \in Providers : fb_last.out[p] = "fail"
    /\ fb_last.write # "ok"
    /\ fb_last.ret.text = FallbackText

\* The calls whose record can be read back: written whole, and before any
\* record that was written only in part.
Readable ==
    {i \in 1..Len(fb_calls) :
        /\ fb_calls[i].write = "ok"
        /\ \A j \in 1..(i - 1) : fb_calls[j].write # "fail_partial"}

Answered(S) == {i \in S : fb_calls[i].used # "none"}

\* C3 as stated: after N calls of which K were answered by a provider the
\* statistics report total_calls = N, successful_calls = K, failed_calls =
\* N - K and api_usage sums to K, each call under the provider that answered.
C3_StatsCountCalls ==
    Len(fb_calls) >= 1 =>
        LET st == get_call_statistics
            N  == Len(fb_calls)
            K  == Cardinality(Answered(1..N))
        IN  /\ st.has_counts
            /\ st.total_calls = N
            /\ st.successful_calls = K
            /\ st.failed_calls = N - K
            /\ SumOver(st.api_usage, DOMAIN st.api_usage) = K

\* C3 amended: the statistics count the records that can be read back from
\* the log file; they are the counts of the calls made when every write of a
\* record succeeded.
C3_StatsCountReadableRecords ==
    LET st == get_call_statistics
        R  == Readable
    IN  /\ st.total_calls = Cardinality(R)
        /\ st.successful_calls = Cardinality(Answered(R))
        /\ st.failed_calls = Cardinality(R) - Cardinality(Answered(R))
        /\ SumOver(st.api_usage, DOMAIN st.api_usage) = Cardinality(Answered(R))
        /\ DOMAIN st.api_usage = {fb_calls[i].used : i \in Answered(R)}
        /\ \A p \in DOMAIN st.api_usage :
              st.api_usage[p] = Cardinality({i \in R : fb_calls[i].used = p})
        /\ st.has_counts = (\E i \in 1..Len(fb_calls) : fb_calls[i].write # "fail_open")
        /\ (\A i \in 1..Len(fb_calls) : fb_calls[i].write = "ok") =>
              /\ st.total_calls = Len(fb_calls)
              /\ st.successful_calls = Cardinality(Answered(1..Len(fb_calls)))

\* Three calls, all logged, answered by two different providers and by none.
C3_Witness ==
    /\ Len(fb_calls) = 3
    /\ \A i \in 1..3 : fb_calls[i].write = "ok"
    /\ fb_calls[1].used = "deepseek"
    /\ fb_calls[2].used = "none"
    /\ fb_calls[3].used = "qwen"
    /\ get_call_statistics.total_calls = 3

\* ========================================================================
\* BaseAgent
\* ========================================================================

\* The name in the configuration map: absent, empty, or a proper name.
ConfigNames == {"absent", "", "bot"}

\* self.agent_name = agent_config.get('name', f'Agent_{self.agent_id[:8]}')
AgentNameOf(cfg) == IF cfg = "absent" THEN "Agent_1a2b3c4d" ELSE cfg

\* The keys add_message_to_history looks at, and the values a caller may have
\* put under them (an empty string stands for any empty value).
FilledKeys == {"message_id", "timestamp", "sender"}

MsgValues(k) ==
    CASE k = "content"    -> {"x"}
      [] k = "message_id" -> {"", "m1"}
      [] k = "timestamp"  -> {"t0"}
      [] k = "sender"     -> {"", "alice"}

InputMessages ==
    UNION { {f \in [{"content"} \cup D -> {"x", "", "m1", "t0", "alice"}] :
                \A k \in DOMAIN f : f[k] \in MsgValues(k)} : D \in SUBSET FilledKeys }

\* str(uuid.uuid4()) and datetime.now().isoformat(): fresh, non-empty strings.
NewUuid(n) == "uuid-" \o ToString(n)
NowIso(n) == "2026-" \o ToString(n)

\* A fill that stamps the agent's name on every message.
FilledSenderOverwritten(message, name, n) ==
    [k \in DOMAIN message \cup FilledKeys |->
        CASE k = "sender" -> name
          [] k = "message_id" /\ k \notin DOMAIN message -> NewUuid(n)
          [] k = "timestamp" /\ k \notin DOMAIN message -> NowIso(n)
          [] OTHER -> message[k]]

\* Lines 106-114: a key that is not in the message gets a value.
Filled(message, name, n) ==
    [k \in DOMAIN message \cup FilledKeys |->
        IF k \in DOMAIN message THEN message[k]
        ELSE CASE k = "message_id" -> NewUuid(n)
               [] k = "timestamp"  -> NowIso(n)
               [] k = "sender"     -> name]

\* _trigger_on_state_change_callbacks without the try/except around each
\* callback: the first callback that raises ends the loop.
RECURSIVE TriggerUntilRaise(_, _, _)
TriggerUntilRaise(cbs, old, new) ==
    IF cbs = <<>> THEN <<>>
    ELSE IF Head(cbs) = "cb_raises"
         THEN <<[callback |-> Head(cbs), old |-> old, new |-> new]>>
         ELSE <<[callback |-> Head(cbs), old |-> old, new |-> new]>>
              \o TriggerUntilRaise(Tail(cbs), old, new)

\* _trigger_on_state_change_callbacks: every callback is called with
\* (old_state, new_state); one that raises is logged and the loop goes on.
TriggerOnStateChangeCallbacks(cbs, old, new) ==
    [i \in 1..Len(cbs) |-> [callback |-> cbs[i], old |-> old, new |-> new]]

\* self.state.update(new_state)
Updated(s, partial) ==
    [k \in DOMAIN s \cup DOMAIN partial |->
        IF k \in DOMAIN partial THEN partial[k] ELSE s[k]]

StateValues == {"True", "False", "None"}

\* The partial states given to set_state.
Partials == UNION {[D -> StateValues] : D \in SUBSET {"ready", "error", "extra"}}

Callbacks == {"cb_ok", "cb_raises"}

NoSet == [done |-> FALSE, old |-> EmptyMap, partial |-> EmptyMap,
          callbacks |-> <<>>, fired |-> <<>>]

\* BaseAgent.__init__ (lines 25-43), with the name the configuration gives.
AgInitNamed(cfg) ==
    /\ agent_name = AgentNameOf(cfg)
    /\ message_history = <<>>
    /\ state = [initialized |-> "False", ready |-> "False", error |-> "None"]
    /\ on_state_change_callbacks = <<>>
    /\ ag_clock = 0
    /\ ag_appended = <<>>
    /\ ag_set = NoSet

AgInit == \E cfg \in ConfigNames : AgInitNamed(cfg)

AgIdle == AgInitNamed("bot")

\* add_message_to_history(message)
AddMessageToHistory(message) ==
    /\ Len(message_history) < MaxHistory
    /\ message_history' = Append(message_history, Filled(message, agent_name, ag_clock + 1))
    /\ ag_clock' = ag_clock + 1
    /\ ag_appended' = Append(ag_appended, message)
    /\ UNCHANGED <<agent_name, state, on_state_change_callbacks, ag_set>>

\* set_state(new_state)
SetState(partial) ==
    LET old_state == state
        new       == Updated(state, partial)
    IN  /\ state' = new
        /\ ag_set' = [done |-> TRUE, old |-> old_state, partial |-> partial,
                      callbacks |-> on_state_change_callbacks,
                      fired |-> IF old_state # new
                                THEN TriggerOnStateChangeCallbacks(
                                         on_state_change_callbacks, old_state, new)
                                ELSE <<>>]
        /\ UNCHANGED <<agent_name, message_history, on_state_change_callbacks,
                       ag_clock, ag_appended>>

\* register_on_state_change_callback(callback)
RegisterOnStateChangeCallback(cb) ==
    /\ on_state_change_callbacks' =
          IF \E i \in 1..Len(on_state_change_callbacks) : on_state_change_callbacks[i] = cb
          THEN on_state_change_callbacks
          ELSE Append(on_state_change_callbacks, cb)
    /\ UNCHANGED <<agent_name, message_history, state, ag_clock, ag_appended, ag_set>>

HistoryNext == \E message \in InputMessages :
                   AddMessageToHistory(message) /\ UNCHANGED notAg

StateNext ==
    \/ \E partial \in Partials : SetState(partial) /\ UNCHANGED notAg
    \/ \E cb \in Callbacks : RegisterOnStateChangeCallback(cb) /\ UNCHANGED notAg

\* ---- Claims about the agent base class ------------------------------------

\* The history holds the appended messages in call order, each with what the
\* caller supplied.
HistoryKeepsOrder ==
    /\ Len(message_history) = Len(ag_appended)
    /\ \A i \in 1..Len(ag_appended) :
          \A k \in DOMAIN ag_appended[i] : message_history[i][k] = ag_appended[i][k]

\* C4 as stated: the history is the appended messages in call order and every
\* message in it has a non-empty message_id, timestamp and sender.
C4_HistoryOrderedAllNonEmpty ==
    /\ HistoryKeepsOrder
    /\ \A i \in 1..Len(message_history) :
          \A k \in FilledKeys :
              k \in DOMAIN message_history[i] /\ message_history[i][k] # ""

\* C4 amended: the history is the appended messages in call order; every
\* message in it has the keys message_id, timestamp and sender; a value the
\* caller supplied is kept as it is, also an empty one; a missing message_id
\* or timestamp is filled with a fresh non-empty value and a missing sender
\* with the agent's name.
C4_HistoryOrderedFilledWhenMissing ==
    /\ HistoryKeepsOrder
    /\ \A i \in 1..Len(message_history) :
          /\ FilledKeys \subseteq DOMAIN message_history[i]
          /\ DOMAIN message_history[i] = DOMAIN ag_appended[i] \cup FilledKeys
          /\ "message_id" \notin DOMAIN ag_appended[i] =>
                /\ message_history[i]["message_id"] # ""
                /\ \A j \in 1..Len(message_history) :
                      j # i => message_history[j]["message_id"] # message_history[i]["message_id"]
          /\ "timestamp" \notin DOMAIN ag_appended[i] =>
                message_history[i]["timestamp"] # ""
          /\ "sender" \notin DOMAIN ag_appended[i] =>
                message_history[i]["sender"] = agent_name

\* Three appended messages: one bare, one carrying its own sender and id, one
\* bare again.
C4_Witness ==
    /\ Len(message_history) = 3
    /\ DOMAIN ag_appended[1] = {"content"}
    /\ "sender" \in DOMAIN ag_appended[2] /\ ag_appended[2]["sender"] = "alice"
    /\ "message_id" \in DOMAIN ag_appended[2] /\ ag_appended[2]["message_id"] = "m1"
    /\ DOMAIN ag_appended[3] = {"content"}
    /\ message_history[3]["message_id"] = NewUuid(3)

\* The call gave at least one key a value it did not hold.
ChangesAKey(old, partial) ==
    \E k \in DOMAIN partial : k \notin DOMAIN old \/ old[k] # partial[k]

\* C5: set_state fires the state-change callbacks exactly when the call
\* changes at least one key, and then calls each registered callback once,
\* with the state before the call and the state after it.
C5_CallbacksFireIffChanged ==
    ag_set.done =>
        IF ChangesAKey(ag_set.old, ag_set.partial)
        THEN /\ Len(ag_set.fired) = Len(ag_set.callbacks)
             /\ \A i \in 1..Len(ag_set.fired) :
                   /\ ag_set.fired[i].callback = ag_set.callbacks[i]
                   /\ ag_set.fired[i].old = ag_set.old
                   /\ ag_set.fired[i].new = state
             /\ state # ag_set.old
             /\ \A k \in DOMAIN ag_set.partial : state[k] = ag_set.partial[k]
             /\ \A k \in DOMAIN ag_set.old \ DOMAIN ag_set.partial : state[k] = ag_set.old[k]
        ELSE /\ ag_set.fired = <<>>
             /\ state = ag_set.old

\* A change of state with two callbacks registered, the first of which
\* raises, and both were called.
C5_Witness ==
    /\ ag_set.done
    /\ ag_set.callbacks = <<"cb_raises", "cb_ok">>
    /\ ChangesAKey(ag_set.old, ag_set.partial)
    /\ Len(ag_set.fired) = 2
    /\ ag_set.fired[2].old["ready"] = "False"
    /\ ag_set.fired[2].new["ready"] = "True"

\* ========================================================================
\* BaseTool, FunctionTool, TextGenerationTool
\* ========================================================================

Param(n, k, d) == [name |-> n, kind |-> k, has_default |-> d]

\* inspect.signature(self._execute) of the bound method: the parameters after
\* self of each tool's execution hook.
Signature(tool) ==
    CASE tool = "FunctionTool" ->
           <<Param("kwargs", "var_keyword", FALSE)>>
      [] tool = "TextGenerationTool" ->
           <<Param("prompt", "named", FALSE), Param("kwargs", "var_keyword", FALSE)>>
      [] tool = "TextSummarizationTool" ->
           <<Param("text", "named", FALSE), Param("summary_length", "named", TRUE),
             Param("kwargs", "var_keyword", FALSE)>>
      [] tool = "CommandExecutionTool" ->
           <<Param("command", "named", FALSE), Param("kwargs", "var_keyword", FALSE)>>
      [] tool = "FileSystemTool" ->
           <<Param("operation", "named", FALSE), Param("path", "named", FALSE),
             Param("kwargs", "var_keyword", FALSE)>>

Tools == {"FunctionTool", "TextGenerationTool", "TextSummarizationTool",
          "CommandExecutionTool", "FileSystemTool"}

SeqRange(q) == {q[i] : i \in 1..Len(q)}

\* _build_input_schema: one field per entry of list(sig.parameters.items())[1:],
\* required when the parameter has no default; no model when there is no field.
BuildInputSchema(sig) ==
    LET fields == SeqRange(Tail(sig))
    IN  [present  |-> fields # {},
         required |-> {f.name : f \in {g \in fields : ~g.has_default}},
         optional |-> {f.name : f \in {g \in fields : g.has_default}}]

\* validate_input(**kwargs): the keys of the validated parameters, or a
\* ValidationError when a required field is missing.  Fields that are not in
\* the model are dropped, optional fields get their default.
ValidateInput(schema, keys) ==
    IF ~schema.present THEN [ok |-> TRUE, keys |-> keys]
    ELSE IF ~(schema.required \subseteq keys) THEN [ok |-> FALSE, keys |-> {}]
    ELSE [ok |-> TRUE,
          keys |-> (keys \cap (schema.required \cup schema.optional)) \cup schema.optional]

\* Whether the call self._execute(**keys) binds its arguments (otherwise
\* Python raises TypeError before the body of the hook runs).
Binds(sig, keys) ==
    LET named == {f \in SeqRange(sig) : f.kind = "named"}
    IN  /\ \A f \in named : ~f.has_default => f.name \in keys
        /\ \/ \E f \in SeqRange(sig) : f.kind = "var_keyword"
           \/ keys \subseteq {f.name : f \in named}

\* ToolResponse(success, result, error, tool_name); "None" is an absent field.
ToolResponse(success, result, error, tool_name) ==
    [success |-> success, result |-> result, error |-> error, tool_name |-> tool_name]

\* format_response(success, result, error): the response carries the tool's name.
FormatResponse(name, success, result, error) ==
    ToolResponse(success, result, error, name)

\* handle_error(error): a failed response with str(error).
HandleError(name, msg) == ToolResponse(FALSE, "None", msg, name)

\* What an execution hook can hand back: a ToolResponse (with or without a
\* tool_name), a dict that makes a ToolResponse, a dict without the success
\* field, any other value, or an exception.
HookResults ==
    {[kind |-> "response", resp |-> ToolResponse(ok, IF ok THEN "value" ELSE "None",
                                                 IF ok THEN "None" ELSE "failed", tn)] :
         ok \in BOOLEAN, tn \in {"None", "Custom"}}
    \cup {[kind |-> k, resp |-> ToolResponse(TRUE, "value", "None", "None")] :
             k \in {"dict", "dict_without_success", "bare", "raises"}}

\* execute() without its last except clause: an exception of the hook
\* propagates to the caller.
ExecuteUncaught(tool, name, keys, hook) ==
    LET v == ValidateInput(BuildInputSchema(Signature(tool)), keys)
    IN  IF ~v.ok
        THEN [resp |-> ToolResponse(FALSE, "None", "Input validation error: missing", name),
              validation_failed |-> TRUE, hook_invoked |-> FALSE, hook_raised |-> FALSE,
              raised |-> FALSE]
        ELSE IF ~Binds(Signature(tool), v.keys) \/ hook.kind = "raises"
        THEN [resp |-> ToolResponse(FALSE, "None", "None", "None"),
              validation_failed |-> FALSE, hook_invoked |-> Binds(Signature(tool), v.keys),
              hook_raised |-> TRUE, raised |-> TRUE]
        ELSE [resp |-> [hook.resp EXCEPT !.tool_name =
                            IF @ = "None" THEN name ELSE @],
              validation_failed |-> FALSE, hook_invoked |-> TRUE, hook_raised |-> FALSE,
              raised |-> FALSE]

\* BaseTool.execute(**kwargs) (lines 174-218) for a tool of class `tool` named
\* `name`, given parameters with the keys `keys`, whose hook hands back `hook`.
Execute(tool, name, keys, hook) ==
    LET v == ValidateInput(BuildInputSchema(Signature(tool)), keys)
    IN  IF ~v.ok
        THEN \* except ValidationError
             [resp |-> ToolResponse(FALSE, "None", "Input validation error: missing", name),
              validation_failed |-> TRUE, hook_invoked |-> FALSE, hook_raised |-> FALSE,
              raised |-> FALSE]
        ELSE IF ~Binds(Signature(tool), v.keys)
        THEN \* TypeError of the call, except Exception
             [resp |-> ToolResponse(FALSE, "None", "Tool execution error: TypeError", name),
              validation_failed |-> FALSE, hook_invoked |-> FALSE, hook_raised |-> TRUE,
              raised |-> FALSE]
        ELSE CASE hook.kind = "raises" ->
                    [resp |-> ToolResponse(FALSE, "None", "Tool execution error: boom", name),
                     validation_failed |-> FALSE, hook_invoked |-> TRUE,
                     hook_raised |-> TRUE, raised |-> FALSE]
               [] hook.kind = "dict_without_success" ->
                    \* ToolResponse(**result) raises ValidationError
                    [resp |-> ToolResponse(FALSE, "None",
                                           "Input validation error: success", name),
                     validation_failed |-> FALSE, hook_invoked |-> TRUE,
                     hook_raised |-> FALSE, raised |-> FALSE]
               [] hook.kind = "bare" ->
                    [resp |-> ToolResponse(TRUE, "value", "None", name),
                     validation_failed |-> FALSE, hook_invoked |-> TRUE,
                     hook_raised |-> FALSE, raised |-> FALSE]
               [] OTHER ->
                    [resp |-> [hook.resp EXCEPT !.tool_name =
                                   IF @ = "None" THEN name ELSE @],
                     validation_failed |-> FALSE, hook_invoked |-> TRUE,
                     hook_raised |-> FALSE, raised |-> FALSE]

\* ---- math_calculator(operation=..., numbers=...) ---------------------------

Numbers == {-1, 0, 1, 4}

NumberLists == UNION {[1..n -> Numbers] : n \in 0..MaxNumbers}

Operations == {"add", "subtract", "divide", "sqrt", "modulo"}

RECURSIVE SumSeq(_)
SumSeq(q) == IF q = <<>> THEN 0 ELSE Head(q) + SumSeq(Tail(q))

ResultMap(v) == [kind |-> "result", value |-> v, error |-> "None"]
ErrorMap(msg) == [kind |-> "error", value |-> 0, error |-> msg]

\* math_calculator: the map it returns; every exception raised inside is
\* caught and returned as a map with an error key (lines 734-741).
\* A quotient is kept as the pair of its operands, a root as its radicand.
MathCalculator(operation, numbers) ==
    IF numbers = <<>>
    THEN ErrorMap("Either expression or operation with numbers must be provided")
    ELSE CASE operation = "add" -> ResultMap(SumSeq(numbers))
           [] operation = "subtract" ->
                IF Len(numbers) < 2
                THEN ErrorMap("At least 2 numbers are required for subtraction")
                ELSE ResultMap(numbers[1] - SumSeq(Tail(numbers)))
           [] operation = "divide" ->
                IF Len(numbers) # 2
                THEN ErrorMap("Exactly 2 numbers are required for division")
                ELSE IF numbers[2] = 0
                THEN ErrorMap("Division by zero is not allowed")
                ELSE ResultMap(<<numbers[1], numbers[2]>>)
           [] operation = "sqrt" ->
                IF Len(numbers) # 1
                THEN ErrorMap("Exactly 1 number is required for square root")
                ELSE IF numbers[1] < 0
                THEN ErrorMap("Cannot calculate square root of a negative number")
                ELSE ResultMap(<<numbers[1]>>)
           [] OTHER -> ErrorMap("Unsupported operation: " \o operation)

\* FunctionTool._execute: the callable's return value is wrapped in a
\* successful response; an exception of the call becomes handle_error.
FunctionToolExecute(name, call) ==
    IF call.raises
    THEN [kind |-> "response", resp |-> HandleError(name, "missing required argument")]
    ELSE [kind |-> "response", resp |-> FormatResponse(name, TRUE, call.value, "None")]

\* ---- TextGenerationTool._execute ------------------------------------------

\* The client the tool was given: none, one without any of the three
\* methods, one with generate_response.
LlmClients == {"none", "no_method", "generate_response"}

\* What the client's generate_response hands back: a success map with content,
\* a bare text, a failure map {success: False, error}, the error envelope
\* {error: True, error_type, error_message}, or it raises.
ClientResults == {"content_map", "text", "failure_map", "error_envelope", "raises"}

ClientFailed(r) == r \in {"failure_map", "error_envelope", "raises"}

TextGenerationExecute(name, client, r) ==
    CASE client = "none" ->
           [called |-> FALSE, resp |-> FormatResponse(name, FALSE, "None", "LLM client not set")]
      [] client = "no_method" ->
           [called |-> FALSE,
            resp |-> FormatResponse(name, FALSE, "None",
                                    "LLM client does not have required method")]
      [] OTHER ->
           CASE r = "raises" -> [called |-> TRUE, resp |-> HandleError(name, "boom")]
             [] r = "content_map" ->
                  [called |-> TRUE, resp |-> FormatResponse(name, TRUE, "generated", "None")]
             [] r = "text" ->
                  [called |-> TRUE, resp |-> FormatResponse(name, TRUE, "generated", "None")]
             [] OTHER ->
                  \* no content key: generated_text = str(result)
                  [called |-> TRUE,
                   resp |-> FormatResponse(name, TRUE, "str(" \o r \o ")", "None")]

NoResponse == ToolResponse(FALSE, "None", "None", "None")

NoToolCall == [done |-> FALSE, tool |-> "None", keys |-> {}, hook |-> "None",
               operation |-> "None", numbers |-> <<>>,
               validation_failed |-> FALSE, hook_invoked |-> FALSE,
               hook_raised |-> FALSE, raised |-> FALSE, underlying_failed |-> FALSE]

TlInit ==
    /\ tl_resp = NoResponse
    /\ tl_call = NoToolCall

\* The keyword arguments a caller may pass to execute() of a tool: any of the
\* names of its hook's parameters, and one name the hook does not know.
ParamKeys(tool) == {f.name : f \in SeqRange(Signature(tool))} \cup {"other"}

\* tool.execute(**params) on a tool of one of the classes, whatever its hook does.
ExecuteTool(tool, keys, hook) ==
    LET r == Execute(tool, tool, keys, hook)
    IN  /\ tl_resp' = r.resp
        /\ tl_call' = [done |-> TRUE, tool |-> tool, keys |-> keys, hook |-> hook.kind,
                       operation |-> "None", numbers |-> <<>>,
                       validation_failed |-> r.validation_failed,
                       hook_invoked |-> r.hook_invoked, hook_raised |-> r.hook_raised,
                       raised |-> r.raised, underlying_failed |-> FALSE]

\* FunctionTool(math_calculator).execute(operation=..., numbers=...)
ExecuteMathCalculator(operation, numbers) ==
    LET value == MathCalculator(operation, numbers)
        hook  == FunctionToolExecute("math_calculator", [raises |-> FALSE, value |-> value])
        r     == Execute("FunctionTool", "math_calculator", {"operation", "numbers"}, hook)
    IN  /\ tl_resp' = r.resp
        /\ tl_call' = [done |-> TRUE, tool |-> "FunctionTool",
                       keys |-> {"operation", "numbers"}, hook |-> "math_calculator",
                       operation |-> operation, numbers |-> numbers,
                       validation_failed |-> r.validation_failed,
                       hook_invoked |-> r.hook_invoked, hook_raised |-> r.hook_raised,
                       raised |-> r.raised, underlying_failed |-> value.kind = "error"]

\* FunctionTool(text_processor).execute(operation=...) without the required
\* text: the call of the function raises TypeError.
ExecuteTextProcessorWithoutText ==
    LET hook == FunctionToolExecute("text_processor", [raises |-> TRUE, value |-> "None"])
        r    == Execute("FunctionTool", "text_processor", {"operation"}, hook)
    IN  /\ tl_resp' = r.resp
        /\ tl_call' = [done |-> TRUE, tool |-> "FunctionTool", keys |-> {"operation"},
                       hook |-> "text_processor", operation |-> "None", numbers |-> <<>>,
                       validation_failed |-> r.validation_failed,
                       hook_invoked |-> r.hook_invoked, hook_raised |-> r.hook_raised,
                       raised |-> r.raised, underlying_failed |-> TRUE]

\* TextGenerationTool._execute(prompt) with a client whose call ends as r.
GenerateText(client, r) ==
    LET g == TextGenerationExecute("TextGenerationTool", client, r)
    IN  /\ tl_resp' = g.resp
        /\ tl_call' = [done |-> TRUE, tool |-> "TextGenerationTool", keys |-> {"prompt"},
                       hook |-> r, operation |-> "None", numbers |-> <<>>,
                       validation_failed |-> FALSE, hook_invoked |-> TRUE,
                       hook_raised |-> FALSE, raised |-> FALSE,
                       underlying_failed |-> (~g.called \/ ClientFailed(r))]

ExecuteNext ==
    \E tool \in Tools, hook \in HookResults : \E keys \in SUBSET ParamKeys(tool) :
        ExecuteTool(tool, keys, hook) /\ UNCHANGED notTl

ToolResultNext ==
    \/ \E operation \in Operations, numbers \in NumberLists :
           ExecuteMathCalculator(operation, numbers) /\ UNCHANGED notTl
    \/ ExecuteTextProcessorWithoutText /\ UNCHANGED notTl
    \/ \E client \in LlmClients, r \in ClientResults :
           GenerateText(client, r) /\ UNCHANGED notTl

\* ---- Claims about the tool contract ---------------------------------------

\* C6: a ToolResponse of a built-in tool function run through FunctionTool,
\* or of an LLM tool, has success true exactly when error is absent and
\* success false exactly when error is a non-empty string; a call whose
\* underlying operation failed has success false.
C6_ResponseReflectsFailure ==
    tl_call.done =>
        /\ tl_resp.success <=> tl_resp.error = "None"
        /\ ~tl_resp.success => tl_resp.error # ""
        /\ tl_call.underlying_failed => ~tl_resp.success

\* C7: execute returns a ToolResponse with tool_name set and does not raise;
\* when the validation of the input failed or the hook raised, the response
\* has success false and carries the error text, and the hook was not invoked
\* when the validation failed.
C7_ExecuteNeverRaises ==
    tl_call.done =>
        /\ ~tl_call.raised
        /\ tl_resp.tool_name # "None"
        /\ (tl_call.validation_failed \/ tl_call.hook_raised) =>
              /\ ~tl_resp.success
              /\ tl_resp.error \notin {"None", ""}
        /\ tl_call.validation_failed => ~tl_call.hook_invoked

\* A hook that was invoked and raised, answered by a failed response.
C7_Witness ==
    /\ tl_call.done
    /\ tl_call.hook_invoked /\ tl_call.hook_raised
    /\ ~tl_resp.success
    /\ tl_resp.tool_name = "FunctionTool"

\* The named parameters of a tool's execution hook, variadic ones left out.
HookParameters(tool) == {f \in SeqRange(Signature(tool)) : f.kind = "named"}

\* C20: the input schema of a tool has exactly one field per named parameter
\* of its hook, required when the parameter has no default and optional when
\* it has one, and no field for **kwargs; so execute() with every required
\* parameter supplied passes validation and reaches the hook, and execute()
\* with a required parameter missing fails with a validation error.
C20_SchemaMatchesHook ==
    (tl_call.done /\ tl_call.tool \in Tools) =>
        LET schema == BuildInputSchema(Signature(tl_call.tool))
            required == {f.name : f \in {g \in HookParameters(tl_call.tool) : ~g.has_default}}
            optional == {f.name : f \in {g \in HookParameters(tl_call.tool) : g.has_default}}
        IN  /\ schema.required = required
            /\ schema.optional = optional
            /\ (required \subseteq tl_call.keys) =>
                   (~tl_call.validation_failed /\ tl_call.hook_invoked)
            /\ ~(required \subseteq tl_call.keys) => tl_call.validation_failed

\* ========================================================================
\* CommandExecutionTool
\* ========================================================================

\* A Python str is a sequence of characters; the characters commands are
\* written with here.
Chars == {"r", "m", "R", " "}

Strings == UNION {[1..n -> Chars] : n \in 0..MaxCmdLen}

\* str.lower(), character by character.
LowerChar(c) == IF c = "R" THEN "r" ELSE IF c = "M" THEN "m" ELSE c

Lower(str) == [i \in 1..Len(str) |-> LowerChar(str[i])]

IsSpace(c) == c = " "

\* str.split(): the maximal runs of non-whitespace characters, in order.
RECURSIVE SplitFrom(_, _, _)
SplitFrom(str, i, word) ==
    IF i > Len(str) THEN (IF word = <<>> THEN <<>> ELSE <<word>>)
    ELSE IF IsSpace(str[i])
    THEN (IF word = <<>> THEN <<>> ELSE <<word>>) \o SplitFrom(str, i + 1, <<>>)
    ELSE SplitFrom(str, i + 1, Append(word, str[i]))

Split(str) == SplitFrom(str, 1, <<>>)

\* self.dangerous_commands (lines 133-138)
dangerous_commands ==
    { <<"r","m">>, <<"d","e","l">>, <<"e","r","a","s","e">>, <<"f","o","r","m","a","t">>,
      <<"m","k","f","s">>, <<"s","h","u","t","d","o","w","n">>, <<"r","e","b","o","o","t">>,
      <<"h","a","l","t">>, <<"p","o","w","e","r","o","f","f">>, <<"s","u">>,
      <<"s","u","d","o">>, <<"p","a","s","s","w","d">>, <<"u","s","e","r","a","d","d">>,
      <<"u","s","e","r","d","e","l">>, <<"m","o","u","n","t">>, <<"u","m","o","u","n","t">>,
      <<"d","d">>, <<"c","h","m","o","d">>, <<"c","h","o","w","n">> }

\* A command is a str or a list of str.
StrCommand(str) == [is_list |-> FALSE, text |-> str, items |-> <<>>]
ListCommand(items) == [is_list |-> TRUE, text |-> <<>>, items |-> items]

\* Names given to the allowlist methods.
AllowNames == {<<"m">>, <<"R", "m">>}

Commands ==
    {StrCommand(str) : str \in Strings}
    \cup {ListCommand(<<>>)}
    \cup {ListCommand(<<str>>) : str \in Strings}
    \cup {ListCommand(<<str, <<"m">>>>) : str \in AllowNames}

\* The name _is_command_safe looks up (lines 191-198): command[0].lower() of a
\* list (IndexError for the empty list), the lower-cased first word of a str.
CmdName(command) ==
    IF command.is_list
    THEN IF command.items = <<>> THEN [kind |-> "raises", name |-> <<>>]
         ELSE [kind |-> "name", name |-> Lower(command.items[1])]
    ELSE IF Split(command.text) = <<>> THEN [kind |-> "empty", name |-> <<>>]
         ELSE [kind |-> "name", name |-> Lower(Split(command.text)[1])]

\* _is_command_safe(command): "True", "False", or "raises".
IsCommandSafe(allowed, command) ==
    LET c == CmdName(command)
    IN  CASE c.kind = "raises" -> "raises"
          [] c.kind = "empty" -> "False"
          [] c.name \in dangerous_commands -> "False"
          [] allowed # {} /\ c.name \notin allowed -> "False"
          [] OTHER -> "True"

\* How subprocess.run ends: it returns a completed process, or raises
\* (FileNotFoundError, TimeoutExpired).
RunOutcomes == {"returns", "raises"}

NoCmdCall == [done |-> FALSE, command |-> StrCommand(<<>>), allowed |-> {},
              ran |-> FALSE, success |-> FALSE, error |-> "None"]

CmdInit ==
    /\ allowed_commands = {}
    /\ cmd_call = NoCmdCall

\* CommandExecutionTool._execute(command), lines 151-178, with the allowlist
\* as it is at the call.
CmdExecute(command, outcome) ==
    LET safe == IsCommandSafe(allowed_commands, command)
    IN  /\ cmd_call' =
              CASE safe = "raises" ->
                     [done |-> TRUE, command |-> command,
                      allowed |-> allowed_commands, ran |-> FALSE,
                      success |-> FALSE, error |-> "list index out of range"]
                [] safe = "False" ->
                     [done |-> TRUE, command |-> command,
                      allowed |-> allowed_commands, ran |-> FALSE,
                      success |-> FALSE,
                      error |-> "Command is not allowed for security reasons"]
                [] OTHER ->
                     [done |-> TRUE, command |-> command,
                      allowed |-> allowed_commands, ran |-> TRUE,
                      success |-> outcome = "returns",
                      error |-> IF outcome = "returns" THEN "None" ELSE "run failed"]
        /\ UNCHANGED allowed_commands

add_allowed_command(name) ==
    /\ allowed_commands' = allowed_commands \cup {Lower(name)}
    /\ UNCHANGED cmd_call

remove_allowed_command(name) ==
    /\ allowed_commands' = allowed_commands \ {Lower(name)}
    /\ UNCHANGED cmd_call

set_allowed_commands(names) ==
    /\ allowed_commands' = {Lower(n) : n \in names}
    /\ UNCHANGED cmd_call

clear_allowed_commands ==
    /\ allowed_commands' = {}
    /\ UNCHANGED cmd_call

CmdNext ==
    \/ \E command \in Commands, outcome \in RunOutcomes :
           CmdExecute(command, outcome) /\ UNCHANGED notCmd
    \/ \E name \in AllowNames : add_allowed_command(name) /\ UNCHANGED notCmd
    \/ \E name \in AllowNames : remove_allowed_command(name) /\ UNCHANGED notCmd
    \/ \E names \in SUBSET AllowNames : set_allowed_commands(names) /\ UNCHANGED notCmd
    \/ clear_allowed_commands /\ UNCHANGED notCmd

\* ---- Claims about command execution ---------------------------------------

\* The first token of a command: the first whitespace-separated word of a
\* str command, and of the first item of a list command (the command line a
\* shell is given when the list is run with shell=True).
FirstToken(command) ==
    LET text == IF command.is_list
                THEN (IF command.items = <<>> THEN <<>> ELSE command.items[1])
                ELSE command.text
    IN  IF Split(text) = <<>> THEN <<>> ELSE Lower(Split(text)[1])

\* C8: no subprocess is run for a command whose first token is, in any
\* letter case, on the denylist, whatever the allowlist holds; with a
\* non-empty allowlist none is run for a command whose first token is not in
\* the allowlist; both calls are answered with success false.
C8_DeniedCommandsNeverRun ==
    cmd_call.done =>
        /\ FirstToken(cmd_call.command) \in dangerous_commands =>
               ~cmd_call.ran /\ ~cmd_call.success
        /\ (cmd_call.allowed # {} /\ FirstToken(cmd_call.command) \notin cmd_call.allowed) =>
               ~cmd_call.ran /\ ~cmd_call.success

\* ========================================================================
\* FileSystemTool
\* ========================================================================

\* The characters paths are written with here; a path is a sequence of them.
PathChars == {"/", ".", "h"}

Paths == UNION {[1..n -> PathChars] : n \in 0..MaxPathLen}

\* os.path.expanduser('~') and os.getcwd() of the process.
Home == <<"/", "h">>
Cwd == <<"/">>

Sep == "/"

StartsWith(str, prefix) ==
    /\ Len(prefix) <= Len(str)
    /\ SubSeq(str, 1, Len(prefix)) = prefix

\* str.split('/'): the pieces between separators, empty ones included.
RECURSIVE SplitOnFrom(_, _, _)
SplitOnFrom(str, i, piece) ==
    IF i > Len(str) THEN <<piece>>
    ELSE IF str[i] = Sep THEN <<piece>> \o SplitOnFrom(str, i + 1, <<>>)
    ELSE SplitOnFrom(str, i + 1, Append(piece, str[i]))

SplitOn(str) == SplitOnFrom(str, 1, <<>>)

\* '/'.join(comps)
RECURSIVE JoinComps(_)
JoinComps(comps) ==
    IF comps = <<>> THEN <<>>
    ELSE IF Len(comps) = 1 THEN comps[1]
    ELSE comps[1] \o <<Sep>> \o JoinComps(Tail(comps))

Dot == <<".">>
DotDot == <<".", ".">>

\* posixpath.normpath: one leading slash, or exactly two when the path begins
\* with exactly two.
InitialSlashes(path) ==
    IF ~StartsWith(path, <<Sep>>) THEN 0
    ELSE IF StartsWith(path, <<Sep, Sep>>) /\ ~StartsWith(path, <<Sep, Sep, Sep>>) THEN 2
    ELSE 1

\* The loop of posixpath.normpath over the components.
RECURSIVE NormComps(_, _, _)
NormComps(comps, new_comps, initial_slashes) ==
    IF comps = <<>> THEN new_comps
    ELSE LET comp == Head(comps)
         IN  IF comp = <<>> \/ comp = Dot
             THEN NormComps(Tail(comps), new_comps, initial_slashes)
             ELSE IF \/ comp # DotDot
                     \/ (initial_slashes = 0 /\ new_comps = <<>>)
                     \/ (new_comps # <<>> /\ new_comps[Len(new_comps)] = DotDot)
             THEN NormComps(Tail(comps), Append(new_comps, comp), initial_slashes)
             ELSE IF new_comps # <<>>
             THEN NormComps(Tail(comps), SubSeq(new_comps, 1, Len(new_comps) - 1),
                            initial_slashes)
             ELSE NormComps(Tail(comps), new_comps, initial_slashes)

\* os.path.normpath(path)
NormPath(path) ==
    IF path = <<>> THEN Dot
    ELSE LET n == InitialSlashes(path)
             body == JoinComps(NormComps(SplitOn(path), <<>>, n))
             out == [i \in 1..n |-> Sep] \o body
         IN  IF out = <<>> THEN Dot ELSE out

\* os.path.join(a, b)
PathJoin(a, b) ==
    IF StartsWith(b, <<Sep>>) THEN b
    ELSE IF a = <<>> \/ a[Len(a)] = Sep THEN a \o b
    ELSE a \o <<Sep>> \o b

\* os.path.abspath(path)
AbsPath(path) ==
    IF StartsWith(path, <<Sep>>) THEN NormPath(path) ELSE NormPath(PathJoin(Cwd, path))

\* self.forbidden_paths (lines 356-360)
forbidden_paths ==
    << Home,
       <<"/","e","t","c">>, <<"/","v","a","r">>, <<"/","u","s","r">>,
       <<"/","b","o","o","t">>, <<"/","b","i","n">>, <<"/","s","b","i","n">>,
       <<"C",":","\\","W","i","n","d","o","w","s">>,
       <<"C",":","\\","P","r","o","g","r","a","m"," ","F","i","l","e","s">>,
       <<"C",":","\\","P","r","o","g","r","a","m"," ","F","i","l","e","s"," ",
         "(","x","8","6",")">> >>

\* os.path.abspath(os.path.normpath(forbidden_path)) of each entry (line 456)
NormalizedForbidden ==
    [i \in 1..Len(forbidden_paths) |-> AbsPath(NormPath(forbidden_paths[i]))]

\* normalized_path.startswith(base + os.sep) or normalized_path == base
Within(normalized_path, base) ==
    StartsWith(normalized_path, base \o <<Sep>>) \/ normalized_path = base

\* '..' in path
HasDotDot(path) == \E i \in 1..(Len(path) - 1) : path[i] = "." /\ path[i + 1] = "."

\* _is_path_safe(path), lines 435-466, on a POSIX system.
IsPathSafe(allowed, path) ==
    LET normalized_path == AbsPath(NormPath(path))
    IN  /\ allowed # <<>> =>
               \E i \in 1..Len(allowed) : Within(normalized_path, AbsPath(NormPath(allowed[i])))
        /\ \A i \in 1..Len(forbidden_paths) :
               ~Within(normalized_path, NormalizedForbidden[i])
        /\ ~HasDotDot(path)

FsOperations == {"read", "write", "list", "create", "delete", "copy", "move", "chmod"}

SupportedOperations == {"read", "write", "list", "create", "delete", "copy", "move"}

\* How the operation's own code ends once it is reached: it returns its
\* result, or raises (file not found, destination missing, OS error).
FsOutcomes == {"returns", "raises"}

NoFsCall == [done |-> FALSE, operation |-> "None", path |-> <<>>, performed |-> FALSE,
             target |-> <<>>, success |-> FALSE, error |-> "None"]

FsInit ==
    /\ allowed_paths = <<>>
    /\ fs_call = NoFsCall

\* FileSystemTool._execute(operation, path), lines 374-423.
FsExecute(operation, path, outcome) ==
    /\ fs_call' =
          IF ~IsPathSafe(allowed_paths, path)
          THEN [done |-> TRUE, operation |-> operation, path |-> path, performed |-> FALSE,
                target |-> <<>>, success |-> FALSE,
                error |-> "Path is not allowed for security reasons"]
          ELSE IF operation \notin SupportedOperations
          THEN [done |-> TRUE, operation |-> operation, path |-> path, performed |-> FALSE,
                target |-> <<>>, success |-> FALSE, error |-> "Unsupported operation"]
          ELSE [done |-> TRUE, operation |-> operation, path |-> path, performed |-> TRUE,
                target |-> AbsPath(NormPath(path)), success |-> outcome = "returns",
                error |-> IF outcome = "returns" THEN "None" ELSE "operation failed"]
    /\ UNCHANGED allowed_paths

\* Paths given to the allowlist methods.
AllowPathInputs == {<<"/">>, <<"/", "h">>, <<"h", "/", ".">>}

add_allowed_path(path) ==
    /\ Len(allowed_paths) < MaxAllowed
    /\ allowed_paths' = Append(allowed_paths, AbsPath(NormPath(path)))
    /\ UNCHANGED fs_call

\* list.remove: the first occurrence goes.
RECURSIVE RemoveFirst(_, _)
RemoveFirst(list, x) ==
    IF list = <<>> THEN <<>>
    ELSE IF Head(list) = x THEN Tail(list)
    ELSE <<Head(list)>> \o RemoveFirst(Tail(list), x)

remove_allowed_path(path) ==
    /\ allowed_paths' = RemoveFirst(allowed_paths, AbsPath(NormPath(path)))
    /\ UNCHANGED fs_call

set_allowed_paths(paths) ==
    /\ allowed_paths' = [i \in 1..Len(paths) |-> AbsPath(NormPath(paths[i]))]
    /\ UNCHANGED fs_call

FsNext ==
    \/ \E operation \in FsOperations, path \in Paths, outcome \in FsOutcomes :
           FsExecute(operation, path, outcome) /\ UNCHANGED notFs
    \/ \E path \in AllowPathInputs : add_allowed_path(path) /\ UNCHANGED notFs
    \/ \E path \in AllowPathInputs : remove_allowed_path(path) /\ UNCHANGED notFs
    \/ \E paths \in UNION {[1..n -> AllowPathInputs] : n \in 0..MaxAllowed} :
           set_allowed_paths(paths) /\ UNCHANGED notFs

\* ---- Claims about the file system tool ------------------------------------

\* The directory entries the operating system walks for a path, from the
\* root: a relative path starts at the working directory, empty components
\* and '.' are skipped, '..' steps to the parent, and any number of leading
\* slashes is the root.
RECURSIVE Walk(_, _)
Walk(comps, at) ==
    IF comps = <<>> THEN at
    ELSE LET comp == Head(comps)
         IN  IF comp = <<>> \/ comp = Dot THEN Walk(Tail(comps), at)
             ELSE IF comp = DotDot
             THEN Walk(Tail(comps),
                       IF at = <<>> THEN <<>> ELSE SubSeq(at, 1, Len(at) - 1))
             ELSE Walk(Tail(comps), Append(at, comp))

Resolve(path) ==
    IF StartsWith(path, <<Sep>>) THEN Walk(SplitOn(path), <<>>)
    ELSE Walk(SplitOn(path), Walk(SplitOn(Cwd), <<>>))

\* The path is the home directory or lies under it.
UnderHome(path) ==
    LET home == Resolve(Home)
        at == Resolve(path)
    IN  Len(at) >= Len(home) /\ SubSeq(at, 1, Len(home)) = home

\* C9: for every operation and every allowlist, a path that is the home
\* directory or nested under it, and a path containing '..', is rejected: no
\* file system operation is performed on it and the response has success
\* false.
C9_HomeAndDotDotRejected ==
    (fs_call.done /\ (UnderHome(fs_call.path) \/ HasDotDot(fs_call.path))) =>
        ~fs_call.performed /\ ~fs_call.success

\* ========================================================================
\* UserAgent: export and import of the conversation history
\* ========================================================================

\* The agent_config a UserAgent is built from ("absent": the key is missing).
UaConfigs == [username : {"absent", "alice"}, interaction_mode : {"absent", "manual", "weird"}]

\* agent_config.get('username', 'User'), agent_config.get('interaction_mode', 'auto')
UsernameOf(cfg) == IF cfg.username = "absent" THEN "User" ELSE cfg.username
InteractionModeOf(cfg) ==
    IF cfg.interaction_mode = "absent" THEN "auto" ELSE cfg.interaction_mode

ValidModes == {"auto", "manual", "hybrid"}

\* set_interaction_mode(mode): an invalid mode ends as 'auto'.
ModeSet(mode) == IF mode \in ValidModes THEN mode ELSE "auto"

\* The state after BaseAgent.__init__ and UserAgent._initialize.
UaStateOf(username, mode) ==
    [initialized |-> "True", ready |-> "True", error |-> "None",
     username |-> username, interaction_mode |-> mode]

\* Messages handed to add_message_to_history.
UaMessages == {[content |-> "x"], [content |-> "y", sender |-> "alice"]}

UaAgentName == AgentNameOf("absent")

\* Whether BaseAgent defines get_state, and whether user_agent.py imports
\* datetime: export_conversation_history uses both.
BaseAgentHasGetState == FALSE
UserAgentImportsDatetime == FALSE

NoFile == [exists |-> FALSE, username |-> "None", interaction_mode |-> "None",
           messages |-> <<>>]

NoExport == [done |-> FALSE, file_path |-> "None", error |-> "None",
             username |-> "None", interaction_mode |-> "None", messages |-> <<>>]

NoReply == [done |-> FALSE, has_content |-> FALSE, content |-> <<>>, mode |-> "None",
            handler |-> "None", auto_generated |-> "None", success |-> FALSE]

NoFresh == [done |-> FALSE, success |-> FALSE, error |-> "None", exported |-> NoExport,
            username |-> "None", interaction_mode |-> "None", messages |-> <<>>]

UaInitWith(cfg) ==
    /\ ua_username = UsernameOf(cfg)
    /\ ua_interaction_mode = InteractionModeOf(cfg)
    /\ ua_state = UaStateOf(UsernameOf(cfg), InteractionModeOf(cfg))
    /\ ua_history = <<>>
    /\ ua_clock = 0
    /\ ua_file = NoFile
    /\ ua_export = NoExport
    /\ ua_fresh = NoFresh
    /\ ua_reply = NoReply

UaInit == \E cfg \in UaConfigs : UaInitWith(cfg)

UaIdle == UaInitWith([username |-> "absent", interaction_mode |-> "absent"])

\* add_message_to_history(message) on the exporting agent.
UaAddMessage(message) ==
    /\ Len(ua_history) < MaxUaHistory
    /\ ua_history' = Append(ua_history, Filled(message, UaAgentName, ua_clock + 1))
    /\ ua_clock' = ua_clock + 1
    /\ UNCHANGED <<ua_username, ua_interaction_mode, ua_state, ua_file, ua_export, ua_fresh,
                   ua_reply>>

\* set_interaction_mode(mode), lines 317-332.
SetInteractionMode(mode) ==
    /\ ua_interaction_mode' = ModeSet(mode)
    /\ ua_state' = [ua_state EXCEPT !.interaction_mode = ModeSet(mode)]
    /\ UNCHANGED <<ua_username, ua_history, ua_clock, ua_file, ua_export, ua_fresh, ua_reply>>

\* A read of self.get_state and of datetime.datetime inside the try block:
\* the text of the exception it raises, "None" when it raises nothing.
ExportError ==
    IF ~BaseAgentHasGetState THEN "'UserAgent' object has no attribute 'get_state'"
    ELSE IF ~UserAgentImportsDatetime THEN "name 'datetime' is not defined"
    ELSE "None"

\* export_conversation_history(file_path), lines 472-496; file_path "None"
\* means no file is asked for.
ExportConversationHistory(file_path) ==
    /\ ua_export' = [done |-> TRUE, file_path |-> file_path, error |-> ExportError,
                     username |-> ua_username, interaction_mode |-> ua_interaction_mode,
                     messages |-> ua_history]
    /\ ua_file' = IF ExportError = "None" /\ file_path # "None"
                  THEN [exists |-> TRUE, username |-> ua_username,
                        interaction_mode |-> ua_interaction_mode, messages |-> ua_history]
                  ELSE ua_file
    /\ UNCHANGED <<ua_username, ua_interaction_mode, ua_state, ua_history, ua_clock, ua_fresh,
                   ua_reply>>

\* The messages of the file added one by one to the cleared history of the
\* importing agent (lines 515-518).
RECURSIVE Readded(_, _, _)
Readded(messages, name, n) ==
    IF messages = <<>> THEN <<>>
    ELSE <<Filled(Head(messages), name, n + 1)>> \o Readded(Tail(messages), name, n + 1)

\* UserAgent({}).import_conversation_history(file_path), lines 508-539, on
\* the file the export was asked to write.
ImportIntoFreshAgent ==
    /\ ua_fresh' =
          IF ~ua_file.exists
          THEN [done |-> TRUE, success |-> FALSE, error |-> "No such file or directory",
                exported |-> ua_export,
                username |-> UsernameOf([username |-> "absent"]),
                interaction_mode |-> InteractionModeOf([interaction_mode |-> "absent"]),
                messages |-> <<>>]
          ELSE [done |-> TRUE, success |-> TRUE, error |-> "None",
                exported |-> ua_export,
                username |-> ua_file.username,
                interaction_mode |-> ModeSet(ua_file.interaction_mode),
                messages |-> Readded(ua_file.messages, UaAgentName, 0)]
    /\ UNCHANGED <<ua_username, ua_interaction_mode, ua_state, ua_history, ua_clock, ua_file,
                   ua_export, ua_reply>>

UaNext ==
    \/ \E message \in UaMessages : UaAddMessage(message) /\ UNCHANGED notUa
    \/ \E mode \in ValidModes \cup {"weird"} : SetInteractionMode(mode) /\ UNCHANGED notUa
    \/ \E file_path \in {"None", "history.json"} :
           ExportConversationHistory(file_path) /\ UNCHANGED notUa
    \/ ImportIntoFreshAgent /\ UNCHANGED notUa

\* ---- Claims about export and import ---------------------------------------

\* C10: after export_conversation_history(path) and then
\* import_conversation_history(path) on a fresh UserAgent, the fresh agent has
\* the ordered message list, the username and the interaction_mode the
\* exporting agent had.
C10_ExportImportRoundTrip ==
    (ua_fresh.done /\ ua_fresh.exported.done /\ ua_fresh.exported.file_path # "None") =>
        /\ ua_fresh.messages = ua_fresh.exported.messages
        /\ ua_fresh.username = ua_fresh.exported.username
        /\ ua_fresh.interaction_mode = ua_fresh.exported.interaction_mode

\* ========================================================================
\* UserAgent: routing of a message in hybrid mode
\* ========================================================================

\* A message content is a sequence of characters; a character outside ASCII
\* is written as its code point.  The contents considered are made of three
\* of these pieces: a whole confirmation keyword, its first two characters,
\* its last character, runs of 9 and 10 letters, and nothing.
Run(n) == [i \in 1..n |-> "a"]

Pieces == { <<"U+8BF7", "U+786E", "U+8BA4">>, <<"U+8BF7", "U+786E">>, <<"U+8BA4">>, Run(9), Run(10), <<>> }

Contents11 == {p \o q \o r : p \in Pieces, q \in Pieces, r \in Pieces}

\* The messages handed to process_message: with a content, or without the key.
HybridMessages ==
    {[has_content |-> TRUE, content |-> c, role |-> r] :
         c \in Contents11, r \in {"assistant"}}
    \cup {[has_content |-> FALSE, content |-> <<>>, role |-> "tool"]}

\* message.get('content', '')
ContentOf(message) == IF message.has_content THEN message.content ELSE <<>>

\* keywords (line 305)
keywords ==
    << <<"U+9700", "U+8981", "U+4F60", "U+7684", "U+786E", "U+8BA4">>,
       <<"U+8BF7", "U+786E", "U+8BA4">>,
       <<"U+662F", "U+5426", "U+7EE7", "U+7EED">>,
       <<"U+9700", "U+8981", "U+51B3", "U+7B56">>,
       <<"U+8BF7", "U+9009", "U+62E9">>,
       <<"U+4F60", "U+89C9", "U+5F97", "U+5462">> >>

\* sub in str, scanning the start positions from the left.
RECURSIVE InFrom(_, _, _)
InFrom(sub, str, i) ==
    IF i + Len(sub) - 1 > Len(str) THEN FALSE
    ELSE IF SubSeq(str, i, i + Len(sub) - 1) = sub THEN TRUE
    ELSE InFrom(sub, str, i + 1)

In(sub, str) == InFrom(sub, str, 1)

\* _need_manual_reply that looks at the length only.
NeedManualReplyLengthOnly(message) == Len(ContentOf(message)) < 20

\* _need_manual_reply(message), lines 301-315.
NeedManualReply(message) ==
    LET content == ContentOf(message)
    IN  IF \E i \in 1..Len(keywords) : In(keywords[i], content) THEN TRUE
        ELSE IF Len(content) < 20 THEN TRUE
        ELSE FALSE

\* _generate_default_auto_response(message), lines 253-268.
GenerateDefaultAutoResponse(message) ==
    LET content == ContentOf(message)
    IN  CASE message.role = "system" -> "system message received"
          [] message.role = "assistant" ->
               IF \E k \in {<<"?">>, <<"U+FF1F">>, <<"U+8BF7">>, <<"U+80FD", "U+5426">>, <<"U+662F", "U+5426">>} :
                      In(k, content)
               THEN "automatic reply, please give more details"
               ELSE "understood"
          [] message.role = "tool" -> "tool result received"
          [] OTHER -> "message received"

\* What config['user_reply_callback'] is: absent, or a callable that returns
\* the user's reply.
UserReplyCallbacks == {"None", "returns"}

\* _handle_auto_response (no auto_responses configured) and
\* _handle_manual_response: the reply message, or the error of the callback.
HandlerResult(handler, message, callback) ==
    IF handler = "auto"
    THEN [success |-> TRUE, content |-> GenerateDefaultAutoResponse(message),
          auto_generated |-> "True"]
    ELSE IF callback = "raises"
    THEN [success |-> FALSE, content |-> "None", auto_generated |-> "None"]
    ELSE [success |-> TRUE,
          content |-> IF callback = "returns" THEN "typed by the user"
                      ELSE GenerateDefaultAutoResponse(message),
          auto_generated |-> "False"]

\* The handler process_message picks for the interaction mode (lines 61-72).
HandlerFor(mode, message) ==
    CASE mode = "auto" -> "auto"
      [] mode = "manual" -> "manual"
      [] mode = "hybrid" -> IF NeedManualReply(message) THEN "manual" ELSE "auto"
      [] OTHER -> "auto"

\* process_message(message), lines 54-75, of an agent whose
\* user_reply_callback is `callback`.
ProcessMessage(message, callback) ==
    /\ Len(ua_history) + 2 <= MaxUaHistory
    /\ ua_state.ready = "True"
    /\ LET handler == HandlerFor(ua_interaction_mode, message)
           r == HandlerResult(handler, message, callback)
           received == Filled([role |-> message.role, content |-> ContentOf(message)],
                              UaAgentName, ua_clock + 1)
           reply == Filled([role |-> "user", content |-> r.content,
                            username |-> ua_username, auto_generated |-> r.auto_generated],
                           UaAgentName, ua_clock + 2)
       IN  /\ ua_history' = IF r.success THEN ua_history \o <<received, reply>>
                            ELSE Append(ua_history, received)
           /\ ua_clock' = IF r.success THEN ua_clock + 2 ELSE ua_clock + 1
           /\ ua_state' = IF r.success THEN ua_state
                          ELSE [ua_state EXCEPT !.error = "callback failed"]
           /\ ua_reply' = [done |-> TRUE, has_content |-> message.has_content,
                           content |-> ContentOf(message), mode |-> ua_interaction_mode,
                           handler |-> handler, auto_generated |-> r.auto_generated,
                           success |-> r.success]
    /\ UNCHANGED <<ua_username, ua_interaction_mode, ua_file, ua_export, ua_fresh>>

HybridNext ==
    \/ \E message \in HybridMessages, callback \in UserReplyCallbacks :
           ProcessMessage(message, callback) /\ UNCHANGED notUa
    \/ \E mode \in ValidModes \cup {"weird"} : SetInteractionMode(mode) /\ UNCHANGED notUa

\* ---- Claims about hybrid routing ------------------------------------------

\* The content holds the keyword somewhere.
Occurs(keyword, content) ==
    \E i \in 1..Len(content) :
        /\ i + Len(keyword) - 1 <= Len(content)
        /\ \A j \in 1..Len(keyword) : content[i + j - 1] = keyword[j]

\* C11: in hybrid mode a message goes to manual handling exactly when its
\* content holds one of the six confirmation keywords or is shorter than 20
\* characters; otherwise it goes to automatic handling and the reply is
\* marked auto_generated.
C11_HybridRouting ==
    (ua_reply.done /\ ua_reply.mode = "hybrid") =>
        /\ Len(keywords) = 6
        /\ ua_reply.handler = "manual" <=>
               \/ \E i \in 1..Len(keywords) : Occurs(keywords[i], ua_reply.content)
               \/ Len(ua_reply.content) < 20
        /\ ua_reply.handler # "manual" =>
               ua_reply.handler = "auto" /\ ua_reply.auto_generated = "True"

\* A message of 20 or more characters holding a keyword, handled manually.
C11_Witness ==
    /\ ua_reply.done /\ ua_reply.mode = "hybrid"
    /\ Len(ua_reply.content) >= 20
    /\ Occurs(<<"U+8BF7", "U+786E", "U+8BA4">>, ua_reply.content)
    /\ ua_reply.handler = "manual"

\* ========================================================================
\* ToolFunctionRegistry
\* ========================================================================

\* A Python dict as the list of its items in insertion order.
Item(k, v) == [key |-> k, value |-> v]

DictHas(d, k) == \E i \in 1..Len(d) : d[i].key = k

\* d.get(k): the value under the key, "None" when the key is absent.
DictGet(d, k) ==
    IF DictHas(d, k) THEN d[CHOOSE i \in 1..Len(d) : d[i].key = k].value ELSE "None"

\* An assignment that adds an item without looking for the key.
DictAppend(d, k, v) == Append(d, Item(k, v))

\* d[k] = v: the value of an existing key is replaced in place, a new key is
\* added at the end.
DictSet(d, k, v) ==
    IF DictHas(d, k)
    THEN [i \in 1..Len(d) |-> IF d[i].key = k THEN Item(k, v) ELSE d[i]]
    ELSE Append(d, Item(k, v))

\* del d[k]
DictDel(d, k) == SelectSeq(d, LAMBDA it : it.key # k)

\* The callables that are registered: their __name__ and the first line of
\* their docstring ("None" without one).
Callables ==
    { [id |-> "f1", name |-> "alpha", doc |-> "first alpha"],
      [id |-> "f2", name |-> "alpha", doc |-> "None"],
      [id |-> "f3", name |-> "beta", doc |-> "a beta"] }

RegistryNames == {"alpha", "beta"}

\* The metadata register builds for a callable (lines 61-102).
ToolMetadata(tool_name, description, func, category) ==
    [name |-> tool_name,
     description |-> IF description # "None" THEN description
                     ELSE IF func.doc # "None" THEN func.doc
                     ELSE "Tool function " \o tool_name,
     function |-> func.id,
     category |-> category]

NoRegCall == [op |-> "None", name |-> "None", func |-> "None", returned |-> "None",
              functions_before |-> <<>>, metadata_before |-> <<>>]

RegInit ==
    /\ tool_functions = <<>>
    /\ tool_metadata = <<>>
    /\ reg_call = NoRegCall

\* registry.register(name, description, category=...)(func)
Register(name, description, category, func) ==
    LET tool_name == IF name # "None" THEN name ELSE func.name
    IN  /\ tool_functions' = DictSet(tool_functions, tool_name, func.id)
        /\ tool_metadata' = DictSet(tool_metadata, tool_name,
                                    ToolMetadata(tool_name, description, func, category))
        /\ reg_call' = [op |-> "register", name |-> tool_name, func |-> func.id,
                        returned |-> func.id,
                        functions_before |-> tool_functions,
                        metadata_before |-> tool_metadata]

\* registry.unregister(name)
Unregister(name) ==
    IF DictHas(tool_functions, name)
    THEN /\ tool_functions' = DictDel(tool_functions, name)
         /\ tool_metadata' = DictDel(tool_metadata, name)
         /\ reg_call' = [op |-> "unregister", name |-> name, func |-> "None",
                         returned |-> "True", functions_before |-> tool_functions,
                         metadata_before |-> tool_metadata]
    ELSE /\ UNCHANGED <<tool_functions, tool_metadata>>
         /\ reg_call' = [op |-> "unregister", name |-> name, func |-> "None",
                         returned |-> "False", functions_before |-> tool_functions,
                         metadata_before |-> tool_metadata]

\* registry.clear()
RegistryClear ==
    /\ tool_functions' = <<>>
    /\ tool_metadata' = <<>>
    /\ reg_call' = [op |-> "clear", name |-> "None", func |-> "None", returned |-> "None",
                    functions_before |-> tool_functions, metadata_before |-> tool_metadata]

\* get_tool(name), get_metadata(name), list_tools()
GetTool(name) == DictGet(tool_functions, name)
GetMetadata(name) == DictGet(tool_metadata, name)
ListTools == [i \in 1..Len(tool_metadata) |-> tool_metadata[i].value]

RegNext ==
    \/ \E name \in RegistryNames \cup {"None"}, description \in {"None", "given"},
          category \in {"None", "text"}, func \in Callables :
           Register(name, description, category, func) /\ UNCHANGED notReg
    \/ \E name \in RegistryNames : Unregister(name) /\ UNCHANGED notReg
    \/ RegistryClear /\ UNCHANGED notReg

\* ---- Claims about the registry --------------------------------------------

EntriesFor(d, k) == Cardinality({i \in 1..Len(d) : d[i].key = k})

\* C12: names are unique in the registry; registering under a name that is
\* present leaves exactly one entry for it, and get_tool and get_metadata
\* return the new callable and its metadata; unregister of an absent name
\* returns false and leaves the registry as it was.
C12_RegistryOverwrites ==
    /\ \A k \in RegistryNames :
           EntriesFor(tool_functions, k) <= 1 /\ EntriesFor(tool_metadata, k) <= 1
    /\ reg_call.op = "register" =>
           /\ EntriesFor(tool_functions, reg_call.name) = 1
           /\ EntriesFor(tool_metadata, reg_call.name) = 1
           /\ Cardinality({i \in 1..Len(ListTools) : ListTools[i].name = reg_call.name}) = 1
           /\ GetTool(reg_call.name) = reg_call.func
           /\ GetMetadata(reg_call.name).function = reg_call.func
           /\ GetMetadata(reg_call.name).name = reg_call.name
    /\ (reg_call.op = "unregister" /\ ~DictHas(reg_call.functions_before, reg_call.name)) =>
           /\ reg_call.returned = "False"
           /\ tool_functions = reg_call.functions_before
           /\ tool_metadata = reg_call.metadata_before

\* A second, different callable registered under a name that was present.
C12_Witness ==
    /\ reg_call.op = "register"
    /\ DictHas(reg_call.functions_before, reg_call.name)
    /\ DictGet(reg_call.functions_before, reg_call.name) # reg_call.func
    /\ GetTool(reg_call.name) = reg_call.func

\* ========================================================================
\* LLMAgent
\* ========================================================================

\* config['model_type'] as given, and str.lower() of it.
ModelTypes == {"deepseek", "DeepSeek", "doubao", "qwen", "gpt4"}

ModelTypeLower(model_type) == IF model_type = "DeepSeek" THEN "deepseek" ELSE model_type

SupportedModelTypes == {"deepseek", "doubao", "qwen"}

\* The keys a model_config may hold.
ConfigKeys == {"api_key", "secret_key", "api_secret"}

\* _get_required_config_fields of each client
RequiredConfigFields(provider) ==
    CASE provider = "deepseek" -> {"api_key"}
      [] provider = "doubao" -> {"api_key", "secret_key"}
      [] provider = "qwen" -> {"api_key", "api_secret"}

\* validate_config that asks for a non-empty configuration only.
ValidateConfigNonEmpty(provider, config) == config # {}

\* BaseClient.validate_config(): the configuration is not empty and holds
\* every required field.
ValidateConfig(provider, config) ==
    IF config = {} THEN FALSE
    ELSE \A field \in RequiredConfigFields(provider) : field \in config

\* _init_model_client(): the client afterwards and the message of the
\* exception it caught ("None" when nothing was raised).
InitModelClient(model_type, client) ==
    IF ModelTypeLower(model_type) \in SupportedModelTypes
    THEN [client |-> ModelTypeLower(model_type), error |-> "None"]
    ELSE [client |-> client,
          error |-> "Failed to initialize model client: Unsupported model type: "
                    \o model_type]

ClientReady(client, config) == client # "None" /\ ValidateConfig(client, config)

\* BaseAgent.__init__ followed by LLMAgent._initialize (lines 20-53).
LlmStateAfterInit(model_type, config) ==
    LET c == InitModelClient(model_type, "None")
    IN  IF ClientReady(c.client, config)
        THEN [initialized |-> "True", ready |-> "True", error |-> c.error,
              model_type |-> model_type]
        ELSE [initialized |-> "True", ready |-> "False",
              error |-> "Invalid model configuration", model_type |-> "None"]

NoLlmCall == [op |-> "construct", raised |-> FALSE, invoked |-> "None", success |-> TRUE,
              ready_before |-> "False", client_ready |-> FALSE]

LlmInitWith(model_type, config) ==
    /\ llm_model_type = model_type
    /\ llm_model_config = config
    /\ llm_client = InitModelClient(model_type, "None").client
    /\ llm_state = LlmStateAfterInit(model_type, config)
    /\ llm_history = <<>>
    /\ llm_call = NoLlmCall

LlmInit == \E model_type \in ModelTypes, config \in SUBSET ConfigKeys :
               LlmInitWith(model_type, config)

LlmIdle == LlmInitWith("deepseek", {})

\* update_model_config(new_config), lines 224-240.
UpdateModelConfig(new_config) ==
    LET config == llm_model_config \cup new_config
        c == InitModelClient(llm_model_type, llm_client)
    IN  /\ llm_model_config' = config
        /\ llm_client' = c.client
        /\ llm_state' =
              IF ClientReady(c.client, config)
              THEN [llm_state EXCEPT !.ready = "True", !.error = "None"]
              ELSE [llm_state EXCEPT !.ready = "False",
                                     !.error = "Invalid model configuration after update"]
        /\ llm_call' = [op |-> "update_model_config", raised |-> FALSE, invoked |-> "None",
                        success |-> TRUE, ready_before |-> llm_state.ready,
                        client_ready |-> ClientReady(c.client, config)]
        /\ UNCHANGED <<llm_model_type, llm_history>>

\* What the provider's API answers to a request of the client: a completion,
\* a reply without choices, or an HTTP error.
ProviderAnswers == {"completion", "no_choices", "http_error"}

\* The result of the client's generate_response / create_completion.
ClientResult(answer) ==
    CASE answer = "completion" -> [success |-> TRUE, content |-> "reply", error |-> "None"]
      [] answer = "no_choices" ->
           [success |-> FALSE, content |-> "None", error |-> "No valid response"]
      [] OTHER -> [success |-> FALSE, content |-> "None", error |-> "True"]

LlmCallRecord(op, invoked, success) ==
    [op |-> op, raised |-> FALSE, invoked |-> invoked, success |-> success,
     ready_before |-> llm_state.ready,
     client_ready |-> ClientReady(llm_client, llm_model_config)]

\* generate_response(prompt), lines 151-191.
LlmGenerateResponse(answer) ==
    IF llm_state.ready # "True" \/ llm_client = "None"
    THEN /\ llm_call' = LlmCallRecord("generate_response", "None", FALSE)
         /\ UNCHANGED <<llm_model_type, llm_model_config, llm_client, llm_state, llm_history>>
    ELSE LET r == ClientResult(answer)
         IN  /\ llm_call' = LlmCallRecord("generate_response", "generate_response", r.success)
             /\ llm_state' = IF r.success THEN llm_state
                             ELSE [llm_state EXCEPT !.error = r.error]
             /\ UNCHANGED <<llm_model_type, llm_model_config, llm_client, llm_history>>

\* process_message(message), lines 92-138.
LlmProcessMessage(content, answer) ==
    IF llm_state.ready # "True"
    THEN /\ llm_call' = LlmCallRecord("process_message", "None", FALSE)
         /\ UNCHANGED <<llm_model_type, llm_model_config, llm_client, llm_state, llm_history>>
    ELSE IF content = ""
    THEN /\ llm_call' = LlmCallRecord("process_message", "None", FALSE)
         /\ UNCHANGED <<llm_model_type, llm_model_config, llm_client, llm_state, llm_history>>
    ELSE LET r == ClientResult(answer)
             received == [role |-> "user", content |-> content]
             reply == [role |-> "assistant", content |-> r.content]
         IN  /\ Len(llm_history) + 2 <= MaxLlmHistory
             /\ llm_history' = IF r.success THEN llm_history \o <<received, reply>>
                               ELSE Append(llm_history, received)
             /\ llm_state' = IF r.success THEN llm_state
                             ELSE [llm_state EXCEPT !.error = r.error]
             /\ llm_call' = LlmCallRecord("process_message", "generate_response", r.success)
             /\ UNCHANGED <<llm_model_type, llm_model_config, llm_client>>

\* create_completion(messages), lines 253-292.
LlmCreateCompletion(answer) ==
    IF llm_state.ready # "True" \/ llm_client = "None"
    THEN /\ llm_call' = LlmCallRecord("create_completion", "None", FALSE)
         /\ UNCHANGED <<llm_model_type, llm_model_config, llm_client, llm_state, llm_history>>
    ELSE LET r == ClientResult(answer)
         IN  /\ Len(llm_history) + 1 <= MaxLlmHistory
             /\ llm_history' = IF r.success
                               THEN Append(llm_history,
                                           [role |-> "assistant", content |-> r.content])
                               ELSE llm_history
             /\ llm_call' = LlmCallRecord("create_completion", "create_completion", r.success)
             /\ UNCHANGED <<llm_model_type, llm_model_config, llm_client, llm_state>>

\* generate_with_tools(prompt, tools), lines 308-353: the client is called
\* without a look at the state; without a client the attribute access raises
\* and handle_error records the error.
LlmGenerateWithTools(answer) ==
    IF llm_client = "None"
    THEN /\ llm_call' = LlmCallRecord("generate_with_tools", "None", FALSE)
         /\ llm_state' = [llm_state EXCEPT !.error = "AttributeError"]
         /\ UNCHANGED <<llm_model_type, llm_model_config, llm_client, llm_history>>
    ELSE LET r == ClientResult(answer)
         IN  /\ llm_call' = LlmCallRecord("generate_with_tools", "generate_response",
                                          r.success)
             /\ UNCHANGED <<llm_model_type, llm_model_config, llm_client, llm_state,
                            llm_history>>

LlmNext ==
    \/ \E new_config \in SUBSET ConfigKeys : UpdateModelConfig(new_config) /\ UNCHANGED notLlm
    \/ \E answer \in ProviderAnswers : LlmGenerateResponse(answer) /\ UNCHANGED notLlm
    \/ \E content \in {"", "hi"}, answer \in ProviderAnswers :
           LlmProcessMessage(content, answer) /\ UNCHANGED notLlm
    \/ \E answer \in ProviderAnswers : LlmCreateCompletion(answer) /\ UNCHANGED notLlm
    \/ \E answer \in ProviderAnswers : LlmGenerateWithTools(answer) /\ UNCHANGED notLlm

\* ---- Claims about the LLM agent -------------------------------------------

\* C13: constructing an LLMAgent whose model_type is not deepseek, doubao or
\* qwen raises an invalid-input error and produces no agent.
C13_UnsupportedTypeFailsConstruction ==
    (llm_call.op = "construct"
        /\ ModelTypeLower(llm_model_type) \notin {"deepseek", "doubao", "qwen"}) =>
        llm_call.raised

\* The configuration is not empty and holds the fields the provider requires.
ConfigValid ==
    /\ llm_client # "None"
    /\ llm_model_config # {}
    /\ (llm_client = "deepseek" => "api_key" \in llm_model_config)
    /\ (llm_client = "doubao" => {"api_key", "secret_key"} \subseteq llm_model_config)
    /\ (llm_client = "qwen" => {"api_key", "api_secret"} \subseteq llm_model_config)

\* C14: after construction and after update_model_config calls, state.ready
\* is true exactly when a client exists and its configuration validates; when
\* ready is false state.error is a non-empty explanation; an update that
\* makes the configuration valid leaves ready true and the error cleared.
C14_ReadyIffClientValid ==
    llm_call.op \in {"construct", "update_model_config"} =>
        /\ llm_state.ready = "True" <=> ConfigValid
        /\ llm_state.ready # "True" => llm_state.error \notin {"None", ""}
        /\ (llm_call.op = "update_model_config" /\ ConfigValid) =>
               llm_state.ready = "True" /\ llm_state.error = "None"

\* An update that made an agent that was not ready ready.
C14_Witness ==
    /\ llm_call.op = "update_model_config"
    /\ llm_call.ready_before = "False"
    /\ llm_state.ready = "True"
    /\ llm_client = "doubao"

\* C15: on an agent whose client fails validate_config (state.ready false),
\* process_message, generate_response, create_completion and
\* generate_with_tools return a failure without invoking the client's
\* generate_response or create_completion.
C15_NoRequestUnlessValid ==
    (llm_call.op \in {"process_message", "generate_response", "create_completion",
                      "generate_with_tools"}
        /\ llm_call.ready_before # "True") =>
        llm_call.invoked = "None" /\ ~llm_call.success

\* ========================================================================
\* DoubaoClient
\* ========================================================================

\* What the token endpoint answers to _get_access_token: a body with an
\* access_token, a body without one, or the request raises.
TokenAnswers == {"token", "no_token", "raises"}

\* What the chat endpoint answers to one request: status 200 with or without
\* a result, status 401, another status, or the request raises.
ChatAnswers == {"result", "no_result", "401", "500", "raises"}

\* _get_access_token(): self.access_token afterwards.
GetAccessToken(token, answer) == IF answer = "token" THEN "tok" ELSE token

\* The events of one call, in order: token fetches, refreshes, chat requests.
TokenEvent(kind, answer) == [kind |-> kind, answer |-> answer]

ChatEvent(answer) == [kind |-> "chat", answer |-> answer]

\* The response dict of a request: its 'error', 'status_code' and 'result'.
ErrorResponse(status_code) == [error |-> TRUE, status_code |-> status_code, result |-> FALSE]

BodyResponse(has_result) == [error |-> FALSE, status_code |-> "None", result |-> has_result]

\* The 401 test of lines 141 and 223, and one that takes any error for it.
IsAnyError(response) == response.error

IsTokenExpired(response) == response.status_code = "401"

\* _sync_request(): lost says that another call on the client reset
\* access_token before the request thread read it.
SyncRequest(token, lost, fetch, answer) ==
    LET seen == IF lost THEN "None" ELSE token
        have == IF seen = "None" THEN GetAccessToken(seen, fetch) ELSE seen
        fetched == IF seen = "None" THEN <<TokenEvent("token", fetch)>> ELSE <<>>
    IN  IF have = "None"
        THEN [token |-> have, events |-> fetched, response |-> ErrorResponse("None")]
        ELSE [token |-> have, events |-> Append(fetched, ChatEvent(answer)),
              response |-> CASE answer = "result" -> BodyResponse(TRUE)
                             [] answer = "no_result" -> BodyResponse(FALSE)
                             [] answer = "raises" -> ErrorResponse("None")
                             [] OTHER -> ErrorResponse(answer)]

\* The return value of a call.
DbFailure(error) == [success |-> FALSE, error |-> error]

DbSuccess == [success |-> TRUE, error |-> "None"]

\* Lines 161-174 and 250-263.
ExtractContent(response) ==
    IF response.result THEN DbSuccess ELSE DbFailure("No valid response from Doubao API")

DbCall(op, events, result, token) ==
    [op |-> op, events |-> events, result |-> result, raised |-> FALSE, token |-> token]

NoDbCall == DbCall("construct", <<>>, DbSuccess, "None")

\* generate_response(prompt), lines 108-178.
DoubaoGenerateResponseWith(fetch0, lost, fetch1, answer1, refresh, fetch2, answer2) ==
    LET op == "generate_response"
        t0 == IF db_access_token = "None" THEN GetAccessToken("None", fetch0)
              ELSE db_access_token
        e0 == IF db_access_token = "None" THEN <<TokenEvent("token", fetch0)>> ELSE <<>>
    IN  IF t0 = "None" THEN DbCall(op, e0, DbFailure("Failed to get access token"), t0)
        ELSE LET r1 == SyncRequest(t0, lost[1], fetch1, answer1)
                 e1 == e0 \o r1.events
             IN  IF r1.response.error
                 THEN IF IsTokenExpired(r1.response)
                      THEN LET t2 == GetAccessToken("None", refresh)
                               e2 == Append(e1, TokenEvent("refresh", refresh))
                           IN  IF t2 # "None"
                               THEN LET r2 == SyncRequest(t2, lost[2], fetch2, answer2)
                                    IN  DbCall(op, e2 \o r2.events,
                                               ExtractContent(r2.response), r2.token)
                               ELSE DbCall(op, e2,
                                           DbFailure("Failed to refresh access token"), t2)
                      ELSE DbCall(op, e1, DbFailure("True"), r1.token)
                 ELSE DbCall(op, e1, ExtractContent(r1.response), r1.token)

\* create_completion(messages), lines 193-267: requests.post in the call
\* itself; an exception of it, or of response.json(), ends in handle_error.
PostResponse(answer) ==
    CASE answer = "result" -> BodyResponse(TRUE)
      [] answer = "no_result" -> BodyResponse(FALSE)
      [] OTHER -> ErrorResponse(answer)

DoubaoCreateCompletionWith(fetch0, answer1, refresh, answer2) ==
    LET op == "create_completion"
        t0 == IF db_access_token = "None" THEN GetAccessToken("None", fetch0)
              ELSE db_access_token
        e0 == IF db_access_token = "None" THEN <<TokenEvent("token", fetch0)>> ELSE <<>>
        e1 == Append(e0, ChatEvent(answer1))
        r1 == PostResponse(answer1)
    IN  IF t0 = "None" THEN DbCall(op, e0, DbFailure("Failed to get access token"), t0)
        ELSE IF answer1 = "raises" THEN DbCall(op, e1, DbFailure("True"), t0)
        ELSE IF r1.error
        THEN IF IsTokenExpired(r1)
             THEN LET t2 == GetAccessToken("None", refresh)
                      e2 == Append(e1, TokenEvent("refresh", refresh))
                      e3 == Append(e2, ChatEvent(answer2))
                  IN  IF t2 # "None"
                      THEN IF answer2 = "raises" THEN DbCall(op, e3, DbFailure("True"), t2)
                           ELSE DbCall(op, e3, ExtractContent(PostResponse(answer2)), t2)
                      ELSE DbCall(op, e2, DbFailure("Failed to refresh access token"), t2)
             ELSE DbCall(op, e1, DbFailure("API returned status code 500"), t0)
        ELSE DbCall(op, e1, ExtractContent(r1), t0)

\* DoubaoClient._initialize: a token is fetched when the configuration
\* validates, and the fetch may fail.
DbInit ==
    /\ db_access_token \in {"None", "tok"}
    /\ db_call = NoDbCall

DbIdle ==
    /\ db_access_token = "None"
    /\ db_call = NoDbCall

DoubaoGenerateResponse(fetch0, lost, fetch1, answer1, refresh, fetch2, answer2) ==
    /\ db_call' = DoubaoGenerateResponseWith(fetch0, lost, fetch1, answer1, refresh,
                                             fetch2, answer2)
    /\ db_access_token' = db_call'.token

DoubaoCreateCompletion(fetch0, answer1, refresh, answer2) ==
    /\ db_call' = DoubaoCreateCompletionWith(fetch0, answer1, refresh, answer2)
    /\ db_access_token' = db_call'.token

\* The access token expires or is reset by a call that ran into a 401.
TokenLost ==
    /\ db_access_token # "None"
    /\ db_access_token' = "None"
    /\ UNCHANGED db_call

DbNext ==
    \/ \E fetch0, fetch1, refresh, fetch2 \in TokenAnswers, answer1, answer2 \in ChatAnswers,
          lost \in [1..2 -> BOOLEAN] :
           DoubaoGenerateResponse(fetch0, lost, fetch1, answer1, refresh, fetch2, answer2)
               /\ UNCHANGED notDb
    \/ \E fetch0, refresh \in TokenAnswers, answer1, answer2 \in ChatAnswers :
           DoubaoCreateCompletion(fetch0, answer1, refresh, answer2) /\ UNCHANGED notDb
    \/ TokenLost /\ UNCHANGED notDb

\* ---- Claims about the Doubao client ---------------------------------------

\* The positions of the events of one kind in the last call.
EventsOf(kind) == {i \in DOMAIN db_call.events : db_call.events[i].kind = kind}

\* C16: in one generate_response or create_completion call the chat request
\* is sent at most twice; a second request is sent only after the first was
\* answered with status 401 and the refresh after it obtained a token; the
\* refresh happens at most once; and when the second request fails too the
\* call returns a failure without raising.
C16_RetryOnceAfter401 ==
    db_call.op \in {"generate_response", "create_completion"} =>
        LET chats == EventsOf("chat")
            refreshes == EventsOf("refresh")
        IN  /\ Cardinality(chats) <= 2
            /\ Cardinality(refreshes) <= 1
            /\ ~db_call.raised
            /\ Cardinality(chats) = 2 =>
                  \E i, k \in chats : \E j \in refreshes :
                      /\ i < j /\ j < k
                      /\ db_call.events[i].answer = "401"
                      /\ db_call.events[j].answer = "token"
                      /\ db_call.events[k].answer # "result" => ~db_call.result.success

\* A call that was answered 401 twice, with a refreshed token in between.
C16_Witness ==
    /\ db_call.op = "generate_response"
    /\ Cardinality(EventsOf("chat")) = 2
    /\ Cardinality(EventsOf("refresh")) = 1
    /\ db_call.events[Len(db_call.events)] = ChatEvent("401")
    /\ ~db_call.result.success

\* ========================================================================
\* FallbackLLMClient instances sharing a project directory
\* ========================================================================

\* datetime.now().strftime("%Y%m%d_%H%M%S"): the time cut to whole seconds.
Strftime(now) == now \div TicksPerSecond

\* self.log_dir / f"llm_calls_{timestamp}.jsonl"
LogFileName(now) == <<"llm_calls_", Strftime(now), ".jsonl">>

LogFileNames == {LogFileName(now) : now \in 0..MaxTicks}

McInit ==
    /\ mc_now = 0
    /\ mc_clients = <<>>
    /\ mc_files = [f \in LogFileNames |-> <<>>]

\* Time passes.
Tick ==
    /\ mc_now < MaxTicks
    /\ mc_now' = mc_now + 1
    /\ UNCHANGED <<mc_clients, mc_files>>

\* FallbackLLMClient(project_dir=os.getcwd()), lines 19-32.
ConstructClient ==
    /\ Len(mc_clients) < MaxClients
    /\ mc_clients' = Append(mc_clients,
                            [log_file |-> LogFileName(mc_now), call_counter |-> 0])
    /\ UNCHANGED <<mc_now, mc_files>>

\* One _generate_single call of client i: the counter is incremented and
\* _log_llm_call appends the record to self.log_file.
ClientCall(i) ==
    LET call_id == mc_clients[i].call_counter + 1
        f == mc_clients[i].log_file
    IN  /\ mc_clients[i].call_counter < MaxClientCalls
        /\ mc_clients' = [mc_clients EXCEPT ![i].call_counter = call_id]
        /\ mc_files' = [mc_files EXCEPT ![f] = Append(@, [client |-> i, call_id |-> call_id])]
        /\ UNCHANGED mc_now

McNext ==
    \/ Tick /\ UNCHANGED notMc
    \/ ConstructClient /\ UNCHANGED notMc
    \/ \E i \in DOMAIN mc_clients : ClientCall(i) /\ UNCHANGED notMc

\* ---- Claims about client instances ----------------------------------------

\* C17: every client construction gets its own call-log file, also for the
\* same project directory: no two clients have the same log file, and the
\* records of a client's file are that client's calls with call_id 1, 2, ..
\* in order.
C17_OwnLogFile ==
    /\ \A i, j \in DOMAIN mc_clients :
           i # j => mc_clients[i].log_file # mc_clients[j].log_file
    /\ \A i \in DOMAIN mc_clients :
           mc_files[mc_clients[i].log_file] =
               [k \in 1..mc_clients[i].call_counter |-> [client |-> i, call_id |-> k]]

\* ========================================================================
\* math_calculator with an expression
\* ========================================================================

\* The characters the expressions are built from.
ExprChars == {"1", "+", ";", "s", "i", "n"}

\* The non-empty expressions ("if expression:").
Expressions == UNION {[1..n -> ExprChars] : n \in 1..MaxExprLen}

safe_chars == {"0", "1", "2", "3", "4", "5", "6", "7", "8", "9", ".", "+", "-", "*", "/",
               "(", ")", "[", "]", "{", "}", " "}

safe_functions == {<<"a", "b", "s">>,
                   <<"r", "o", "u", "n", "d">>,
                   <<"m", "i", "n">>,
                   <<"m", "a", "x">>,
                   <<"s", "u", "m">>,
                   <<"p", "o", "w">>,
                   <<"s", "q", "r", "t">>,
                   <<"s", "i", "n">>,
                   <<"c", "o", "s">>,
                   <<"t", "a", "n">>,
                   <<"l", "o", "g">>,
                   <<"e", "x", "p">>}

\* The characters the regular expression class \w matches.
WordChars == {"0", "1", "2", "3", "4", "5", "6", "7", "8", "9", "_"} \cup
             {"a", "b", "c", "d", "e", "f", "g", "h", "i", "j", "k", "l", "m", "n", "o",
              "p", "q", "r", "s", "t", "u", "v", "w", "x", "y", "z"}

\* func is in expression at position p.
MatchAt(func, expression, p) ==
    /\ p + Len(func) - 1 <= Len(expression)
    /\ \A k \in 1..Len(func) : expression[p + k - 1] = func[k]

\* re.search(rf"\b{func}\b", expression)
SearchWord(func, expression) ==
    \E p \in 1..Len(expression) :
        /\ MatchAt(func, expression, p)
        /\ p = 1 \/ expression[p - 1] \notin WordChars
        /\ p + Len(func) - 1 = Len(expression)
              \/ expression[p + Len(func)] \notin WordChars

\* The inner loop of lines 637-643: found, for any character.
FoundSafeFunction(expression) ==
    \E func \in safe_functions : SearchWord(func, expression)

\* The loop of lines 634-645: the positions whose character is rejected.
UnsafePositions(expression) ==
    {i \in 1..Len(expression) :
        expression[i] \notin safe_chars /\ ~FoundSafeFunction(expression)}

\* What eval(expression, ..) does: a value, or it raises.
EvalOutcomes == {"value", "raises"}

\* No call was made yet; expression is the argument of the call to come.
NoCalcCall(expression) ==
    [done |-> FALSE, expression |-> expression, evaluated |-> FALSE, error |-> "None"]

CalcInit == \E expression \in Expressions : calc_call = NoCalcCall(expression)

CalcIdle == calc_call = NoCalcCall(<<"1">>)

\* math_calculator(expression=expression), lines 617-657 and the handler
\* at the end of the function.
MathCalculatorExpression(outcome) ==
    LET expression == calc_call.expression
        unsafe == UnsafePositions(expression)
    IN  /\ ~calc_call.done
        /\ calc_call' =
              IF unsafe # {}
              THEN [done |-> TRUE, expression |-> expression, evaluated |-> FALSE,
                    error |-> "Unsafe character in expression: "
                              \o expression[CHOOSE i \in unsafe : \A j \in unsafe : i <= j]]
              ELSE [done |-> TRUE, expression |-> expression, evaluated |-> TRUE,
                    error |-> IF outcome = "raises" THEN "eval" ELSE "None"]

CalcNext ==
    \E outcome \in EvalOutcomes : MathCalculatorExpression(outcome) /\ UNCHANGED notCalc

\* ---- Claims about math_calculator -----------------------------------------

\* Position i of the expression lies inside an occurrence of a permitted
\* function name.
InFunctionName(expression, i) ==
    \E func \in safe_functions : \E p \in 1..Len(expression) :
        /\ MatchAt(func, expression, p)
        /\ p <= i /\ i < p + Len(func)

\* C18: math_calculator passes an expression to the evaluator only if every
\* character of it is in the allow-list or belongs to an occurrence of a
\* permitted function name; any other expression is rejected with an
\* 'unsafe character' error, also when it contains a permitted name.
C18_OnlySafeExpressionsEvaluated ==
    calc_call.done =>
        LET expression == calc_call.expression
            allowed == \A i \in 1..Len(expression) :
                           \/ expression[i] \in safe_chars
                           \/ InFunctionName(expression, i)
        IN  ~allowed => ~calc_call.evaluated /\ calc_call.error # "None"

\* ========================================================================
\* text_extractor with extract_type 'email'
\* ========================================================================

UpperLetters == {"A", "B", "C", "D", "E", "F", "G", "H", "I", "J", "K", "L", "M",
                 "N", "O", "P", "Q", "R", "S", "T", "U", "V", "W", "X", "Y", "Z"}

\* [a-zA-Z0-9]
AlnumChars == (WordChars \ {"_"}) \cup UpperLetters

\* The three character classes of email_pattern:
\* [a-zA-Z0-9_.+-]+ @ [a-zA-Z0-9-]+ \. [a-zA-Z0-9-.]+
LocalChars == AlnumChars \cup {"_", ".", "+", "-"}

DomainChars == AlnumChars \cup {"-"}

TailChars == AlnumChars \cup {"-", "."}

\* The pieces the texts are built from: addresses in several casings, an
\* address without a dot, and an empty piece.
TextPieces == {<<"a", "@", "b", ".", "c">>, <<"A", "@", "B", ".", "C">>,
               <<"a", "@", "B", ".", "c">>, <<"b", "@", "b", ".", "c">>,
               <<"a", "@", "b">>, <<>>}

Texts == {p \o <<" ">> \o q \o <<" ">> \o r : p, q, r \in TextPieces}

\* The last position of the longest run of characters of class starting at i
\* (i - 1 when there is none): a greedy class+.
RECURSIVE RunEnd(_, _, _)
RunEnd(text, i, class) ==
    IF i <= Len(text) /\ text[i] \in class THEN RunEnd(text, i + 1, class) ELSE i - 1

\* Where a match of email_pattern that starts at i ends (0: no match at i).
\* No class holds the character that must follow it, so giving back
\* characters of a greedy run never helps.
MatchEnd(text, i) ==
    LET a == RunEnd(text, i, LocalChars)
        b == RunEnd(text, a + 2, DomainChars)
        c == RunEnd(text, b + 2, TailChars)
    IN  IF /\ a >= i
           /\ a + 1 <= Len(text) /\ text[a + 1] = "@"
           /\ b >= a + 2
           /\ b + 1 <= Len(text) /\ text[b + 1] = "."
           /\ c >= b + 2
        THEN c ELSE 0

\* re.findall(email_pattern, text): the non-overlapping matches, left to right.
RECURSIVE FindAllFrom(_, _)
FindAllFrom(text, i) ==
    IF i > Len(text) THEN <<>>
    ELSE IF MatchEnd(text, i) = 0 THEN FindAllFrom(text, i + 1)
    ELSE <<SubSeq(text, i, MatchEnd(text, i))>> \o FindAllFrom(text, MatchEnd(text, i) + 1)

FindAll(text) == FindAllFrom(text, 1)

\* set(emails): list(set(..)) holds these in an order that is not fixed.
Deduplicated(emails) == {emails[i] : i \in DOMAIN emails}

NoExCall(text) == [done |-> FALSE, text |-> text, extracted_data |-> {}, match_count |-> 0]

ExInit == \E text \in Texts : ex_call = NoExCall(text)

ExIdle == ex_call = NoExCall(<<" ", " ">>)

\* text_extractor(text, extract_type='email'), lines 372-379.
TextExtractorEmail ==
    LET emails == Deduplicated(FindAll(ex_call.text))
    IN  /\ ~ex_call.done
        /\ ex_call' = [done |-> TRUE, text |-> ex_call.text, extracted_data |-> emails,
                       match_count |-> Cardinality(emails)]

ExNext == TextExtractorEmail /\ UNCHANGED notEx

\* ---- Claims about text_extractor ------------------------------------------

\* An address with its upper-case letters a, b, c turned to lower case.
CaseFold(address) ==
    [i \in DOMAIN address |->
        CASE address[i] = "A" -> "a" [] address[i] = "B" -> "b"
          [] address[i] = "C" -> "c" [] OTHER -> address[i]]

\* C19: text_extractor with extract_type 'email' returns each address once,
\* addresses that differ only in letter case counting as one: no two
\* elements of extracted_data are the same address in different casings, and
\* match_count is the number of addresses so counted.
C19_EmailsDeduplicatedIgnoringCase ==
    ex_call.done =>
        /\ \A x, y \in ex_call.extracted_data : CaseFold(x) = CaseFold(y) => x = y
        /\ ex_call.match_count = Cardinality({CaseFold(x) : x \in ex_call.extracted_data})

\* ========================================================================
\* BaseAgent callbacks and handle_error
\* ========================================================================

\* The exceptions an operation may run into: type(error).__name__ and str(error).
Errors == {[type |-> "ValueError", message |-> "boom"]}

\* The value handle_error stores under state['error'].
ErrorValue(error) == error.type \o ": " \o error.message

\* The envelope handle_error returns.
ErrorEnvelope(error) ==
    [error |-> "True", error_type |-> error.type, error_message |-> error.message]

\* A registration that appends without looking.
RegisterCallbackAppend(cbs, cb) == Append(cbs, cb)

\* Lines 163-164, 173-174: "if callback not in list: list.append(callback)".
RegisterCallback(cbs, cb) ==
    IF \E i \in 1..Len(cbs) : cbs[i] = cb THEN cbs ELSE Append(cbs, cb)

\* _trigger_on_message_callbacks, _trigger_on_error_callbacks: every callback
\* of the list is called once, in order; one that raises is logged and the
\* loop goes on.
TriggerCallbacks(cbs) == cbs

NoEvent == [kind |-> "none", fired |-> <<>>,
            registered |-> [message |-> {}, error |-> {}, state |-> {}]]

CbInit ==
    /\ on_message_callbacks = <<>>
    /\ on_error_callbacks = <<>>
    /\ cb_registered = [message |-> {}, error |-> {}, state |-> {}]
    /\ cb_event = NoEvent

register_on_message_callback(cb) ==
    /\ on_message_callbacks' = RegisterCallback(on_message_callbacks, cb)
    /\ cb_registered' = [cb_registered EXCEPT !.message = @ \cup {cb}]
    /\ UNCHANGED <<on_error_callbacks, cb_event>>

register_on_error_callback(cb) ==
    /\ on_error_callbacks' = RegisterCallback(on_error_callbacks, cb)
    /\ cb_registered' = [cb_registered EXCEPT !.error = @ \cup {cb}]
    /\ UNCHANGED <<on_message_callbacks, cb_event>>

\* register_on_state_change_callback(cb), with the record of what was registered.
register_on_state_change_callback(cb) ==
    /\ RegisterOnStateChangeCallback(cb)
    /\ cb_registered' = [cb_registered EXCEPT !.state = @ \cup {cb}]
    /\ UNCHANGED <<on_message_callbacks, on_error_callbacks, cb_event>>

\* add_message_to_history(message) with its last line, the message callbacks.
AppendAndNotify(message) ==
    /\ AddMessageToHistory(message)
    /\ cb_event' = [kind |-> "message", fired |-> TriggerCallbacks(on_message_callbacks),
                    registered |-> cb_registered]
    /\ UNCHANGED <<on_message_callbacks, on_error_callbacks, cb_registered>>

\* handle_error(error), lines 236-254: set_state({'error': ..}), then the
\* error callbacks.
AgentHandleError(error) ==
    /\ SetState([error |-> ErrorValue(error)])
    /\ cb_event' = [kind |-> "error", fired |-> TriggerCallbacks(on_error_callbacks),
                    registered |-> cb_registered]
    /\ UNCHANGED <<on_message_callbacks, on_error_callbacks, cb_registered>>

\* set_state(new_state) of a caller.
ChangeState(partial) ==
    /\ SetState(partial)
    /\ cb_event' = [kind |-> "state", fired |-> <<>>,
                    registered |-> cb_registered]
    /\ UNCHANGED <<on_message_callbacks, on_error_callbacks, cb_registered>>

CallbackNext ==
    \/ \E cb \in Callbacks : register_on_message_callback(cb) /\ UNCHANGED notCb
    \/ \E cb \in Callbacks : register_on_error_callback(cb) /\ UNCHANGED notCb
    \/ register_on_state_change_callback("cb_ok") /\ UNCHANGED notAgCb
    \/ AppendAndNotify([content |-> "x"]) /\ UNCHANGED notAgCb
    \/ \E error \in Errors : AgentHandleError(error) /\ UNCHANGED notAgCb
    \/ \E v \in {"True", "False"} : ChangeState([ready |-> v]) /\ UNCHANGED notAgCb

\* ---- Claims about callbacks -----------------------------------------------

\* How often cb is in the sequence q.
Count(q, cb) == Cardinality({i \in 1..Len(q) : q[i] = cb})

\* The callbacks a sequence of calls names.
Called(fired) == [i \in 1..Len(fired) |-> fired[i].callback]

\* C22: registering a callback is idempotent for the three kinds: each list
\* holds every registered callback exactly once, so an appended message, a
\* handled error or a state change calls it exactly once.
C22_RegistrationIdempotent ==
    /\ \A cb \in Callbacks :
          /\ Count(on_message_callbacks, cb) = IF cb \in cb_registered.message THEN 1 ELSE 0
          /\ Count(on_error_callbacks, cb) = IF cb \in cb_registered.error THEN 1 ELSE 0
          /\ Count(on_state_change_callbacks, cb) = IF cb \in cb_registered.state THEN 1 ELSE 0
    /\ cb_event.kind = "message" =>
          \A cb \in cb_event.registered.message : Count(cb_event.fired, cb) = 1
    /\ cb_event.kind = "error" =>
          \A cb \in cb_event.registered.error : Count(cb_event.fired, cb) = 1
    /\ (cb_event.kind \in {"error", "state"} /\ ag_set.old # state) =>
          \A cb \in cb_event.registered.state : Count(Called(ag_set.fired), cb) = 1

\* A callback registered more than once (the registrations outnumber the
\* callbacks) and called once by a handled error.
C22_Witness ==
    /\ cb_event.kind = "error"
    /\ cb_event.registered.error = Callbacks
    /\ cb_event.fired = <<"cb_raises", "cb_ok">>
    /\ cb_event.registered.state = {"cb_ok"}
    /\ Called(ag_set.fired) = <<"cb_ok">>

\* ========================================================================
\* process_message and generate_response of the three agent kinds:
\* where an exception is caught
\* ========================================================================

AgentKinds == {"LLMAgent", "ToolAgent", "UserAgent"}

\* What a message holds under 'content': no such key, None, a number, an
\* empty string, or a string that is plain text, a JSON tool request, another
\* JSON value, a textual call name(args), or one whose args do not parse.
ContentKinds == {"absent", "None", "number", "empty", "plain", "json_tool", "json_other",
                 "call", "call_bad_args"}

TextKinds == {"empty", "plain", "json_tool", "json_other", "call", "call_bad_args"}

\* The messages handed to process_message: a dict (with a role, a content and
\* what _need_manual_reply answers for its text) or something that is no dict.
OpMessages ==
    {[dict |-> TRUE, role |-> r, content |-> c, needs_manual |-> n] :
         r \in {"assistant", "user"}, c \in ContentKinds, n \in BOOLEAN}
    \cup {[dict |-> FALSE, role |-> "user", content |-> "absent", needs_manual |-> FALSE]}

\* generate_response(prompt) of ToolAgent and UserAgent: message = {'content': prompt}
PromptMessage(content) ==
    [dict |-> TRUE, role |-> "unknown", content |-> content, needs_manual |-> TRUE]

\* What surrounds a call: the provider's answer, the tool named by a request
\* and what it does, the user_reply_callback, the interaction mode.
Surroundings(kind) ==
    [answer : IF kind = "LLMAgent" THEN {"completion", "no_choices", "http_error"}
              ELSE {"completion"},
     tool : IF kind = "ToolAgent" THEN {"runs", "raises", "unregistered"} ELSE {"runs"},
     callback : IF kind = "UserAgent" THEN {"None", "returns", "raises"} ELSE {"None"},
     mode : IF kind = "UserAgent" THEN {"auto", "manual", "hybrid"} ELSE {"auto"}]

\* Results and the ways an operation ends.
OpSuccess == [success |-> "True", error |-> "absent", error_type |-> "absent"]

OpFailure(error) == [success |-> "False", error |-> error, error_type |-> "absent"]

HandledEnvelope(error) == [success |-> "absent", error |-> "True", error_type |-> error.type]

Returned(ret) == [ret |-> ret, caught |-> FALSE, handled |-> FALSE, error |-> "None"]

\* An exception caught by a handler that answers with handle_error(e).
Handled(type) ==
    [ret |-> HandledEnvelope([type |-> type, message |-> "m"]), caught |-> TRUE,
     handled |-> TRUE, error |-> ErrorValue([type |-> type, message |-> "m"])]

\* An exception caught by a handler that builds the failure map itself.
CaughtLocally(type) ==
    [ret |-> OpFailure("m"), caught |-> TRUE, handled |-> FALSE,
     error |-> ErrorValue([type |-> type, message |-> "m"])]

\* LLMAgent.generate_response, lines 151-191; the clients catch their own
\* exceptions and answer with a map.
LlmGenerate(ready, answer) ==
    IF ~ready THEN Returned(OpFailure("Agent not ready or model client not initialized"))
    ELSE IF answer = "completion" THEN Returned(OpSuccess)
    ELSE IF answer = "no_choices" THEN Returned(OpFailure("No valid response"))
    ELSE Returned(OpFailure("True"))

\* LLMAgent.process_message, lines 92-138.
LlmProcess(ready, message, answer) ==
    IF ~ready THEN Returned(OpFailure("Agent not ready"))
    ELSE IF ~message.dict THEN Handled("AttributeError")
    ELSE IF message.content \in {"absent", "None", "empty"}
    THEN Returned(OpFailure("No message content provided"))
    ELSE LlmGenerate(ready, answer)

\* ToolAgent._handle_tool_request, lines 193-249.
HandleToolRequest(tool) ==
    CASE tool = "unregistered" -> Returned(OpFailure("Tool not found"))
      [] tool = "raises" -> CaughtLocally("ValueError")
      [] OTHER -> Returned(OpSuccess)

\* ToolAgent.process_message, lines 103-150.
ToolProcess(message, tool) ==
    IF ~message.dict THEN Handled("TypeError")
    ELSE CASE message.content \in {"None", "number"} -> Handled("TypeError")
           [] message.content = "json_tool" -> HandleToolRequest(tool)
           [] message.content = "call" -> HandleToolRequest(tool)
           [] message.content = "call_bad_args" -> CaughtLocally("JSONDecodeError")
           [] OTHER -> Returned(OpSuccess)

\* UserAgent._generate_default_auto_response, lines 253-268: content.lower()
\* is evaluated for an assistant message only.
DefaultAutoResponse(message) ==
    IF message.role = "assistant" /\ message.content \in {"None", "number"}
    THEN Handled("AttributeError")
    ELSE Returned(OpSuccess)

\* UserAgent._handle_manual_response, lines 172-211.
ManualResponse(message, callback) ==
    CASE callback = "None" -> DefaultAutoResponse(message)
      [] callback = "raises" -> Handled("ValueError")
      [] OTHER -> Returned(OpSuccess)

\* UserAgent.process_message, lines 54-80, with _handle_hybrid_response.
UserProcess(message, mode, callback) ==
    IF ~message.dict THEN Handled("TypeError")
    ELSE CASE mode = "manual" -> ManualResponse(message, callback)
           [] mode = "hybrid" ->
                IF message.content \in {"None", "number"} THEN Handled("TypeError")
                ELSE IF message.needs_manual THEN ManualResponse(message, callback)
                ELSE DefaultAutoResponse(message)
           [] OTHER -> DefaultAutoResponse(message)

\* process_message(message) of an agent of the kind.
Process(kind, ready, message, w) ==
    CASE kind = "LLMAgent" -> LlmProcess(ready, message, w.answer)
      [] kind = "ToolAgent" -> ToolProcess(message, w.tool)
      [] OTHER -> UserProcess(message, w.mode, w.callback)

\* generate_response(prompt) of an agent of the kind.
Generate(kind, ready, content, w) ==
    CASE kind = "LLMAgent" -> LlmGenerate(ready, w.answer)
      [] kind = "ToolAgent" -> ToolProcess(PromptMessage(content), w.tool)
      [] OTHER -> UserProcess(PromptMessage(content), w.mode, w.callback)

\* _trigger_on_error_callbacks without the try/except around each callback.
TriggerErrorCallbacksUncaught(cbs) ==
    IF \E i \in 1..Len(cbs) : cbs[i] = "cb_raises"
    THEN [fired |-> SubSeq(cbs, 1, CHOOSE i \in 1..Len(cbs) :
                                      /\ cbs[i] = "cb_raises"
                                      /\ \A j \in 1..(i - 1) : cbs[j] # "cb_raises"),
          raised |-> TRUE]
    ELSE [fired |-> cbs, raised |-> FALSE]

\* _trigger_on_error_callbacks, lines 200-211.
TriggerErrorCallbacks(cbs) == [fired |-> TriggerCallbacks(cbs), raised |-> FALSE]

NoOpCall == [op |-> "none", path |-> Returned(OpSuccess), fired |-> <<>>, raised |-> FALSE,
             callbacks |-> <<>>]

OpInit ==
    /\ op_kind \in AgentKinds
    /\ op_ready \in (IF op_kind = "LLMAgent" THEN BOOLEAN ELSE {TRUE})
    /\ op_error = (IF op_kind = "LLMAgent" /\ ~op_ready
                   THEN "Invalid model configuration" ELSE "None")
    /\ op_callbacks = <<>>
    /\ op_call = NoOpCall

OpIdle ==
    /\ op_kind = "UserAgent"
    /\ op_ready = TRUE
    /\ op_error = "None"
    /\ op_callbacks = <<>>
    /\ op_call = NoOpCall

\* The end of an operation: handle_error stores the error and calls the
\* error callbacks when it ran; a failed generation of the LLM agent stores
\* its error text.
Finish(op, path) ==
    LET t == IF path.handled THEN TriggerErrorCallbacks(op_callbacks)
             ELSE [fired |-> <<>>, raised |-> FALSE]
    IN  /\ op_error' = IF path.handled THEN path.error
                       ELSE IF op_kind = "LLMAgent" /\ op_ready /\ path.ret.success = "False"
                                 /\ path.ret.error # "No message content provided"
                            THEN path.ret.error
                       ELSE op_error
        /\ op_call' = [op |-> op, path |-> path, fired |-> t.fired, raised |-> t.raised,
                       callbacks |-> op_callbacks]
        /\ UNCHANGED <<op_kind, op_ready, op_callbacks>>

OpProcessMessage(message, w) == Finish("process_message", Process(op_kind, op_ready, message, w))

OpGenerateResponse(content, w) ==
    Finish("generate_response", Generate(op_kind, op_ready, content, w))

OpRegisterOnErrorCallback(cb) ==
    /\ op_callbacks' = RegisterCallback(op_callbacks, cb)
    /\ UNCHANGED <<op_kind, op_ready, op_error, op_call>>

OpNext ==
    \/ \E message \in OpMessages, w \in Surroundings(op_kind) :
           OpProcessMessage(message, w) /\ UNCHANGED notOp
    \/ \E content \in ContentKinds \ {"absent"}, w \in Surroundings(op_kind) :
           OpGenerateResponse(content, w) /\ UNCHANGED notOp
    \/ \E cb \in Callbacks : OpRegisterOnErrorCallback(cb) /\ UNCHANGED notOp

\* ---- Claims about errors of agent operations ------------------------------

\* A success result or a failure envelope with an error indicator.
IsEnvelope(ret) ==
    \/ ret.success = "True"
    \/ ret.success = "False" /\ ret.error # "absent"
    \/ ret.error = "True" /\ ret.error_type # "absent"

\* The error was recorded and every error callback called once.
ErrorRecorded ==
    /\ op_error = op_call.path.error
    /\ op_call.fired = op_call.callbacks

\* C21 as stated: process_message and generate_response of every agent kind
\* never raise and return a success result or a failure envelope; when the
\* failure came from a caught exception, state.error records it and every
\* registered error callback was called once.
C21_CaughtErrorsRecorded ==
    op_call.op # "none" =>
        /\ ~op_call.raised
        /\ IsEnvelope(op_call.path.ret)
        /\ op_call.path.caught => ErrorRecorded

\* C21 amended: the operations never raise and return a success result or a
\* failure envelope; an exception answered by handle_error is recorded in
\* state.error and every registered error callback is called once, also past
\* one that raises; an exception of a tool callable or of the parsing of
\* textual tool arguments in ToolAgent is answered with success false and the
\* error text, and neither state.error nor the error callbacks see it.
C21_HandledErrorsRecorded ==
    op_call.op # "none" =>
        /\ ~op_call.raised
        /\ IsEnvelope(op_call.path.ret)
        /\ op_call.path.handled => ErrorRecorded
        /\ (op_call.path.caught /\ ~op_call.path.handled) =>
              /\ op_kind = "ToolAgent"
              /\ op_call.path.ret.success = "False"
              /\ op_call.fired = <<>>

\* A handled exception with two error callbacks registered, the first of
\* which raises.
C21_Witness ==
    /\ op_call.op = "process_message"
    /\ op_kind = "UserAgent"
    /\ op_call.path.handled
    /\ op_call.callbacks = <<"cb_raises", "cb_ok">>
    /\ op_call.fired = <<"cb_raises", "cb_ok">>
    /\ op_error = "ValueError: m"

\* ========================================================================
\* LLMAgent.process_message: concurrent calls on one agent
\* ========================================================================

\* The calls of process_message made on the agent.
MaxConcurrent == 2

CallIds == 1..MaxConcurrent

\* The message of call i: with or without content, with a message_id of its
\* own or without one.
MessagesOf(i) ==
    LET base == {[k \in {"role"} |-> "user"]} \cup
                {[k \in {"role", "content"} |-> IF k = "role" THEN "user" ELSE c] :
                     c \in {"", "hi"}}
    IN  base \cup {[k \in DOMAIN b \cup {"message_id"} |->
                       IF k = "message_id" THEN "m" \o ToString(i) ELSE b[k]] : b \in base}

\* message.get('content'), line 101.
MessageContent(message) == IF "content" \in DOMAIN message THEN message["content"] ELSE "None"

\* An agent that appends the message before it looks at its state and content.
InboundAppendedAlways(ready, message) == TRUE

\* Lines 94-109: the message reaches the history when the agent is ready and
\* the content is not empty.
InboundAppended(ready, message) == ready /\ MessageContent(message) \notin {"None", ""}

\* A reply related to the message the history received last.
RelatedToLastInbound(message, history) ==
    LET last == CHOOSE k \in 1..Len(history) :
                    /\ history[k]["role"] = "user"
                    /\ \A j \in (k + 1)..Len(history) : history[j]["role"] # "user"
    IN  history[last]["message_id"]

\* Line 121: message.get('message_id'), read from the message after
\* add_message_to_history filled it in place.
RelatedTo(message, history) == message["message_id"]

\* Lines 117-122.
ResponseMessage(message, history, r) ==
    [k \in {"role", "content", "sender", "related_to"} |->
        CASE k = "role" -> "assistant"
          [] k = "content" -> r.content
          [] k = "sender" -> "agent"
          [] OTHER -> RelatedTo(message, history)]

IdleCall == [pc |-> "idle", outcome |-> "none", message |-> [k \in {"role"} |-> "user"]]

CvInitWith(ready) ==
    /\ cv_ready = ready
    /\ cv_error = "None"
    /\ cv_history = <<>>
    /\ cv_owner = <<>>
    /\ cv_calls = [i \in CallIds |-> IdleCall]
    /\ cv_started = <<>>
    /\ cv_uuid = 0

CvInit == \E ready \in BOOLEAN : CvInitWith(ready)

CvIdle == CvInitWith(FALSE)

\* process_message(message) up to the await of the provider, lines 92-112 and
\* generate_response lines 151-163.
StartProcessMessage(i, message) ==
    /\ cv_calls[i].pc = "idle"
    /\ cv_started' = Append(cv_started, i)
    /\ IF InboundAppended(cv_ready, message)
       THEN LET filled == Filled(message, "agent", cv_uuid)
            IN  /\ cv_history' = Append(cv_history, filled)
                /\ cv_owner' = Append(cv_owner, i)
                /\ cv_uuid' = cv_uuid + 1
                /\ cv_calls' = [cv_calls EXCEPT ![i] =
                       [pc |-> "awaiting", outcome |-> "none", message |-> filled]]
       ELSE /\ cv_calls' = [cv_calls EXCEPT ![i] =
                   [pc |-> "done",
                    outcome |-> IF ~cv_ready THEN "not_ready" ELSE "no_content",
                    message |-> message]]
            /\ UNCHANGED <<cv_history, cv_owner, cv_uuid>>
    /\ UNCHANGED <<cv_ready, cv_error>>

\* process_message from the provider's answer on, generate_response lines
\* 169-188 and process_message lines 115-135.
ResumeProcessMessage(i, answer) ==
    LET r == ClientResult(answer)
        message == cv_calls[i].message
    IN  /\ cv_calls[i].pc = "awaiting"
        /\ IF r.success
           THEN /\ cv_history' = Append(cv_history,
                       Filled(ResponseMessage(message, cv_history, r), "agent", cv_uuid))
                /\ cv_owner' = Append(cv_owner, i)
                /\ cv_uuid' = cv_uuid + 1
                /\ UNCHANGED cv_error
           ELSE /\ cv_error' = r.error
                /\ UNCHANGED <<cv_history, cv_owner, cv_uuid>>
        /\ cv_calls' = [cv_calls EXCEPT ![i] =
               [pc |-> "done", outcome |-> IF r.success THEN "success" ELSE "failure",
                message |-> message]]
        /\ UNCHANGED <<cv_ready, cv_started>>

CvNext ==
    \/ \E i \in CallIds : \E message \in MessagesOf(i) :
           StartProcessMessage(i, message) /\ UNCHANGED notCv
    \/ \E i \in CallIds, answer \in ProviderAnswers :
           ResumeProcessMessage(i, answer) /\ UNCHANGED notCv

\* ---- Claims about process_message of the LLM agent ------------------------

\* The entries of the history that call i appended, in order.
OwnEntries(i) ==
    LET F[k \in 0..Len(cv_history)] ==
            IF k = 0 THEN <<>>
            ELSE IF cv_owner[k] = i THEN Append(F[k - 1], cv_history[k]) ELSE F[k - 1]
    IN  F[Len(cv_history)]

\* C23: a process_message call on an agent that is not ready, or with no
\* content, appends nothing; one whose generation succeeds appends exactly
\* two entries, the inbound message and then an assistant message whose
\* related_to is the inbound message's message_id; one whose generation
\* fails appends exactly the inbound message.
C23_HistoryGrowth ==
    /\ Len(cv_owner) = Len(cv_history)
    /\ \A i \in CallIds :
          LET c == cv_calls[i]
              own == OwnEntries(i)
          IN  CASE c.pc = "idle" -> own = <<>>
                [] ~cv_ready \/ MessageContent(c.message) \in {"None", ""} ->
                      c.pc = "done" /\ own = <<>>
                [] c.pc = "awaiting" -> own = <<c.message>>
                [] c.outcome = "failure" -> own = <<c.message>>
                [] c.outcome = "success" ->
                      /\ Len(own) = 2
                      /\ own[1] = c.message
                      /\ own[2]["role"] = "assistant"
                      /\ own[2]["related_to"] = own[1]["message_id"]
                [] OTHER -> FALSE

\* A call whose message came without a message_id succeeded, alone on the
\* agent: the reply is related to the identifier the history gave the message.
C23_Witness ==
    /\ cv_owner = <<1, 1>>
    /\ cv_calls[1].outcome = "success"
    /\ cv_history[1]["message_id"] = NewUuid(0)
    /\ cv_history[2]["related_to"] = NewUuid(0)
    /\ \E j \in CallIds : cv_calls[j].outcome = "no_content"

Inbound(k) == cv_history[k]["role"] = "user"

Assistant(k) == cv_history[k]["role"] = "assistant"

\* The calls whose message reached the history, in the order they started.
StartedAppending ==
    LET F[k \in 0..Len(cv_started)] ==
            IF k = 0 THEN <<>>
            ELSE IF cv_calls[cv_started[k]].outcome \in {"not_ready", "no_content"}
                 THEN F[k - 1] ELSE Append(F[k - 1], cv_started[k])
    IN  F[Len(cv_started)]

\* The calls that own the inbound messages of the history, in history order.
InboundOwners ==
    LET F[k \in 0..Len(cv_history)] ==
            IF k = 0 THEN <<>>
            ELSE IF Inbound(k) THEN Append(F[k - 1], cv_owner[k]) ELSE F[k - 1]
    IN  F[Len(cv_history)]

\* C30: under every interleaving of concurrent process_message calls on a
\* ready agent, whose messages carry distinct message ids or none, every
\* assistant message is related to the message_id of an inbound message
\* earlier in the history, no inbound message has more than one related
\* assistant message, and the inbound messages are in call-start order.
C30_RepliesPairedUnderInterleaving ==
    cv_ready =>
        /\ \A k \in 1..Len(cv_history) :
              Assistant(k) =>
                  \E j \in 1..(k - 1) :
                      /\ Inbound(j)
                      /\ cv_history[j]["message_id"] = cv_history[k]["related_to"]
                      /\ cv_owner[j] = cv_owner[k]
        /\ \A j \in 1..Len(cv_history) :
              Inbound(j) =>
                  Cardinality({k \in 1..Len(cv_history) :
                                   Assistant(k) /\ cv_history[k]["related_to"]
                                                     = cv_history[j]["message_id"]}) <= 1
        /\ InboundOwners = StartedAppending

\* Two calls overlapped and the provider answered the second one first.
C30_Witness ==
    /\ cv_ready
    /\ Len(cv_history) >= 4
    /\ SubSeq(cv_owner, 1, 4) = <<1, 2, 2, 1>>
    /\ cv_history[4]["related_to"] = cv_history[1]["message_id"]

\* ========================================================================
\* ToolAgent: the tool registry and process_message
\* ========================================================================

\* The entries process_message calls may add to the history.
MaxToolHistory == 2

\* _initialize, lines 33-43: the built-in tools, in the order of the dict.
BuiltinTools == <<"execute_python", "execute_bash", "read_file", "write_file", "list_files",
                  "search_text", "get_current_time", "calculate", "get_weather">>

\* The names used with register_tool, unregister_tool and in requests.
ToolNames == {"calculate", "custom_tool", "no_such_tool"}

\* What a string content is to json.loads and to the search for name(args):
\* a JSON object with tool_name, another JSON value or no JSON; no textual
\* call, one whose arguments parse as a JSON list, or one whose do not.
ToolContents ==
    {[string |-> TRUE, json |-> j.kind, json_tool |-> j.name, call |-> c.kind,
      call_tool |-> c.name] :
        j \in {[kind |-> "tool_request", name |-> n] : n \in ToolNames}
               \cup {[kind |-> k, name |-> "None"] : k \in {"other", "invalid"}},
        c \in {[kind |-> k, name |-> n] : k \in {"args", "bad_args"}, n \in ToolNames}
               \cup {[kind |-> "none", name |-> "None"]}}
    \cup {[string |-> FALSE, json |-> "invalid", json_tool |-> "None", call |-> "none",
           call_tool |-> "None"]}

\* What a registered callable does with the parameters: returns a result,
\* returns one that json.dumps cannot serialise, or raises.
ToolOutcomes == {"result", "unserialisable", "raises"}

\* A dispatch that looks for the textual call before it tries JSON.
DispatchTextFirst(content) ==
    IF content.call # "none"
    THEN [route |-> IF content.call = "bad_args" THEN "parse_error" ELSE "tool",
          tool_name |-> content.call_tool]
    ELSE IF content.json = "tool_request"
    THEN [route |-> "tool", tool_name |-> content.json_tool]
    ELSE [route |-> "list", tool_name |-> "None"]

\* process_message lines 116-147: where a string content is sent.
Dispatch(content) ==
    IF content.json = "tool_request"
    THEN [route |-> "tool", tool_name |-> content.json_tool]
    ELSE IF content.call # "none"
    THEN [route |-> IF content.call = "bad_args" THEN "parse_error" ELSE "tool",
          tool_name |-> content.call_tool]
    ELSE [route |-> "list", tool_name |-> "None"]

InRegistry(registry, name) == \E i \in 1..Len(registry) : registry[i] = name

\* self.tools_registry[name] = tool_func: a new key goes to the end.
WithTool(registry, name) == IF InRegistry(registry, name) THEN registry ELSE Append(registry, name)

\* del self.tools_registry[name]
WithoutTool(registry, name) == SelectSeq(registry, LAMBDA n : n # name)

\* A register_tool that does not look at the function it is given.
RegisteredUnchecked(registry, name, tool_func) == WithTool(registry, name)

\* register_tool lines 259-265: the registry afterwards.
Registered(registry, name, tool_func) ==
    IF tool_func = "callable" THEN WithTool(registry, name) ELSE registry

InboundEntry == [role |-> "user", tool_name |-> "None"]

ToolEntry(tool_name) == [role |-> "tool", tool_name |-> tool_name]

\* _handle_tool_request, lines 193-249: the result and the entries appended.
ToolRequest(registry, tool_name, outcome) ==
    IF ~InRegistry(registry, tool_name)
    THEN [success |-> FALSE, error |-> "Tool not found", appended |-> <<>>]
    ELSE CASE outcome = "raises" -> [success |-> FALSE, error |-> "m", appended |-> <<>>]
           [] outcome = "unserialisable" ->
                [success |-> FALSE, error |-> "not JSON serializable", appended |-> <<>>]
           [] OTHER -> [success |-> TRUE, error |-> "None",
                        appended |-> <<ToolEntry(tool_name)>>]

NoAgentToolCall ==
    [op |-> "none", content |-> CHOOSE c \in ToolContents : ~c.string, outcome |-> "result",
     route |-> "none", tool_name |-> "None", success |-> TRUE, error |-> "None",
     available_tools |-> <<>>, appended |-> <<>>, registry |-> <<>>, state_tools |-> <<>>,
     tool_func |-> "None", fired |-> FALSE]

\* __init__ and _initialize: the built-in tools and those found in tools_dir.
TaInitWith(custom) ==
    /\ ta_registry = BuiltinTools \o custom
    /\ ta_available = BuiltinTools \o custom
    /\ ta_error = "None"
    /\ ta_history = <<>>
    /\ ta_call = NoAgentToolCall

TaInit == \E custom \in {<<>>, <<"custom_tool">>} : TaInitWith(custom)

TaIdle == TaInitWith(<<>>)

ToolCallRecord(op, content, outcome, d, r, tool_func, fired) ==
    [op |-> op, content |-> content, outcome |-> outcome, route |-> d.route,
     tool_name |-> d.tool_name, success |-> r.success, error |-> r.error,
     available_tools |-> r.available_tools, appended |-> r.appended,
     registry |-> ta_registry, state_tools |-> ta_available, tool_func |-> tool_func,
     fired |-> fired]

\* process_message(message) of a message whose content is the given one.
ToolProcessMessage(content, outcome) ==
    LET d == IF content.string THEN Dispatch(content)
             ELSE [route |-> "handle_error", tool_name |-> "None"]
        t == ToolRequest(ta_registry, d.tool_name, outcome)
        r == CASE d.route = "tool" ->
                    [success |-> t.success, error |-> t.error, available_tools |-> <<>>,
                     appended |-> <<InboundEntry>> \o t.appended]
               [] d.route = "parse_error" ->
                    [success |-> FALSE, error |-> "Failed to parse tool parameters",
                     available_tools |-> <<>>, appended |-> <<InboundEntry>>]
               [] d.route = "list" ->
                    [success |-> TRUE, error |-> "None", available_tools |-> ta_registry,
                     appended |-> <<InboundEntry>>]
               [] OTHER ->
                    [success |-> FALSE, error |-> "TypeError", available_tools |-> <<>>,
                     appended |-> <<InboundEntry>>]
    IN  /\ Len(ta_history) + 2 <= MaxToolHistory
        /\ ta_history' = ta_history \o r.appended
        /\ ta_error' = IF d.route = "handle_error" THEN "TypeError: m" ELSE ta_error
        /\ ta_call' = ToolCallRecord("process_message", content, outcome, d, r, "None", FALSE)
        /\ UNCHANGED <<ta_registry, ta_available>>

NoRoute == [route |-> "none", tool_name |-> "None"]

NoResult == [success |-> TRUE, error |-> "None", available_tools |-> <<>>, appended |-> <<>>]

\* register_tool(name, tool_func), lines 259-267; set_state calls the
\* state-change callbacks when the state differs from the one before.
RegisterTool(name, tool_func) ==
    LET registry == Registered(ta_registry, name, tool_func)
        state_tools == IF tool_func = "callable" THEN registry ELSE ta_available
    IN  /\ ta_registry' = registry
        /\ ta_available' = state_tools
        /\ ta_call' = ToolCallRecord("register_tool", NoAgentToolCall.content, "result",
                                     [NoRoute EXCEPT !.tool_name = name], NoResult, tool_func,
                                     state_tools # ta_available)
        /\ UNCHANGED <<ta_error, ta_history>>

\* unregister_tool(name), lines 276-284.
UnregisterTool(name) ==
    LET found == InRegistry(ta_registry, name)
        registry == IF found THEN WithoutTool(ta_registry, name) ELSE ta_registry
        state_tools == IF found THEN registry ELSE ta_available
    IN  /\ ta_registry' = registry
        /\ ta_available' = state_tools
        /\ ta_call' = ToolCallRecord("unregister_tool", NoAgentToolCall.content, "result",
                                     [NoRoute EXCEPT !.tool_name = name], NoResult, "None",
                                     state_tools # ta_available)
        /\ UNCHANGED <<ta_error, ta_history>>

\* get_available_tools(), line 293.
GetAvailableTools == ta_registry

TaNext ==
    \/ \E content \in ToolContents, outcome \in ToolOutcomes :
           ToolProcessMessage(content, outcome) /\ UNCHANGED notTa
    \/ \E name \in ToolNames, tool_func \in {"callable", "not_callable"} :
           RegisterTool(name, tool_func) /\ UNCHANGED notTa
    \/ \E name \in ToolNames : UnregisterTool(name) /\ UNCHANGED notTa

\* ---- Claims about the tool agent ------------------------------------------

\* The tool-role entries among those a call appended.
ToolEntries(appended) == SelectSeq(appended, LAMBDA e : e.role = "tool")

C29_AvailableToolsMirrorRegistry ==
    /\ ta_available = GetAvailableTools
    /\ \A i, j \in 1..Len(ta_registry) : ta_registry[i] = ta_registry[j] => i = j
    /\ ((ta_call.op = "register_tool" /\ ta_call.tool_func = "not_callable")
          \/ (ta_call.op = "unregister_tool"
                /\ ~InRegistry(ta_call.registry, ta_call.tool_name))) =>
          /\ ta_registry = ta_call.registry
          /\ ta_available = ta_call.state_tools
          /\ ~ta_call.fired

\* A tool was unregistered, a non-callable was refused under its name, and
\* the state still lists the registry.
C29_Witness ==
    /\ ta_call.op = "register_tool"
    /\ ta_call.tool_func = "not_callable"
    /\ ta_call.tool_name = "calculate"
    /\ ~InRegistry(ta_registry, "calculate")
    /\ InRegistry(ta_registry, "custom_tool")
    /\ Len(ta_available) = Len(BuiltinTools)

\* ========================================================================
\* MultiAgentSystem.process_query
\* ========================================================================

\* The words of the coordinator's first reply.
MaxReplyLen == 3

\* A reply is a sequence of words: the identifiers of the agents, a colon, a
\* line break ("NL") and any other word ("x").
ReplyWords == {"code_expert", "data_analyst", "researcher", "writing_expert", "tool_agent",
               ":", "NL", "x"}

Replies == UNION {[1..n -> ReplyWords] : n \in 0..MaxReplyLen}

Systems == {"MultiAgentSystem", "ExtendedMultiAgentSystem"}

\* An order of the checks with the tool agent before the researcher.
LlmSpecialistsToolEarly(system) ==
    IF system = "ExtendedMultiAgentSystem"
    THEN <<"code_expert", "data_analyst", "tool_agent", "researcher", "writing_expert">>
    ELSE <<"code_expert", "data_analyst", "tool_agent", "researcher">>

\* The checks of process_query in the order of the code, lines 158-194 and
\* 354-396.
LlmSpecialists(system) ==
    IF system = "ExtendedMultiAgentSystem"
    THEN <<"code_expert", "data_analyst", "researcher", "writing_expert", "tool_agent">>
    ELSE <<"code_expert", "data_analyst", "researcher", "tool_agent">>

\* "name" in coordinator_response
OccursIn(name, reply) == \E i \in 1..Len(reply) : reply[i] = name

\* The end of a run of line breaks that starts at position i.
SkipSpace(reply, i) ==
    LET stops == {j \in i..(Len(reply) + 1) :
                     /\ \A k \in i..(j - 1) : reply[k] = "NL"
                     /\ (j = Len(reply) + 1 \/ reply[j] # "NL")}
    IN  CHOOSE j \in stops : TRUE

\* re.match of tool_agent\s*:\s*([^\n]+) at position i: where group 1 starts,
\* or 0.
InstructionAt(reply, i) ==
    IF reply[i] # "tool_agent" THEN 0
    ELSE LET c == SkipSpace(reply, i + 1)
         IN  IF c > Len(reply) \/ reply[c] # ":" THEN 0
             ELSE LET g == SkipSpace(reply, c + 1)
                  IN  IF g > Len(reply) THEN 0 ELSE g

\* re.search(r"tool_agent\s*:\s*([^\n]+)", coordinator_response).group(1), or
\* the empty sequence when nothing matches.
ToolInstruction(reply) ==
    LET starts == {i \in 1..Len(reply) : InstructionAt(reply, i) > 0}
    IN  IF starts = {} THEN <<>>
        ELSE LET first == CHOOSE i \in starts : \A j \in starts : i <= j
                 g == InstructionAt(reply, first)
                 end == CHOOSE e \in g..Len(reply) :
                            /\ \A k \in g..e : reply[k] # "NL"
                            /\ (e = Len(reply) \/ reply[e + 1] = "NL")
             IN  SubSeq(reply, g, end)

LogEntry(role, name, content) == [role |-> role, name |-> name, content |-> content]

\* What an LLM specialist, the tool agent and the synthesis answer.
ReplyOf(name) == <<"reply of", name>>

ToolReplyTo(instruction) == <<"tool_agent received">> \o instruction

Synthesis == <<"synthesis">>

MsInitWith(system, reply) ==
    /\ ms_system = system
    /\ ms_reply = reply
    /\ ms_pc = 0
    /\ ms_log = <<>>
    /\ ms_calls = <<>>
    /\ ms_responses = <<>>
    /\ ms_final = <<"none">>

MsInit == \E system \in Systems, reply \in Replies : MsInitWith(system, reply)

MsIdle == MsInitWith("MultiAgentSystem", <<>>)

\* Lines 132-152: the query is logged and the coordinator asked.
AskCoordinator ==
    /\ ms_pc = 0
    /\ ms_pc' = 1
    /\ ms_calls' = <<"coordinator">>
    /\ ms_log' = <<LogEntry("user", "user", <<"query">>),
                   LogEntry("assistant", "coordinator", ms_reply)>>
    /\ UNCHANGED <<ms_system, ms_reply, ms_responses, ms_final>>

\* One of the checks of lines 158-194: the specialist is asked when its
\* identifier occurs in the first reply, the tool agent when an instruction
\* is found as well.
CheckSpecialist ==
    /\ ms_pc \in 1..Len(LlmSpecialists(ms_system))
    /\ LET name == LlmSpecialists(ms_system)[ms_pc]
           instruction == ToolInstruction(ms_reply)
           asked == IF name = "tool_agent"
                    THEN OccursIn(name, ms_reply) /\ instruction # <<>>
                    ELSE OccursIn(name, ms_reply)
           response == IF name = "tool_agent" THEN ToolReplyTo(instruction) ELSE ReplyOf(name)
       IN  /\ ms_calls' = IF asked THEN Append(ms_calls, name) ELSE ms_calls
           /\ ms_responses' = IF asked THEN Append(ms_responses, name) ELSE ms_responses
           /\ ms_log' = IF asked THEN Append(ms_log, LogEntry("assistant", name, response))
                        ELSE ms_log
    /\ ms_pc' = ms_pc + 1
    /\ UNCHANGED <<ms_system, ms_reply, ms_final>>

\* Lines 197-216: the synthesis, or the first reply, is the final answer.
FinalAnswer ==
    /\ ms_pc = Len(LlmSpecialists(ms_system)) + 1
    /\ ms_pc' = ms_pc + 1
    /\ LET final == IF ms_responses # <<>> THEN Synthesis ELSE ms_reply
       IN  /\ ms_final' = final
           /\ ms_calls' = IF ms_responses # <<>> THEN Append(ms_calls, "coordinator")
                          ELSE ms_calls
           /\ ms_log' = Append(ms_log, LogEntry("assistant", "coordinator", final))
    /\ UNCHANGED <<ms_system, ms_reply, ms_responses>>

MsNext ==
    \/ AskCoordinator /\ UNCHANGED notMs
    \/ CheckSpecialist /\ UNCHANGED notMs
    \/ FinalAnswer /\ UNCHANGED notMs

\* ---- Claims about process_query --------------------------------------------

ProcessQueryDone == ms_pc = Len(LlmSpecialists(ms_system)) + 2

\* A 'tool_agent:' instruction can be extracted: the identifier, a colon and
\* a word that is no line break, with nothing but line breaks between them.
Extractable(reply) ==
    \E i, c, g \in 1..Len(reply) :
        /\ i < c /\ c < g
        /\ reply[i] = "tool_agent" /\ reply[c] = ":" /\ reply[g] # "NL"
        /\ \A k \in (i + 1)..(g - 1) : k # c => reply[k] = "NL"

\* The agents process_query is to consult for the first reply, in order.
ToConsult ==
    SelectSeq(IF ms_system = "ExtendedMultiAgentSystem"
              THEN <<"code_expert", "data_analyst", "researcher", "writing_expert",
                     "tool_agent">>
              ELSE <<"code_expert", "data_analyst", "researcher", "tool_agent">>,
              LAMBDA name : /\ OccursIn(name, ms_reply)
                            /\ name = "tool_agent" => Extractable(ms_reply))

IsPrefix(p, q) == Len(p) <= Len(q) /\ SubSeq(q, 1, Len(p)) = p

LogNames == [k \in 1..Len(ms_log) |-> ms_log[k].name]

\* C25: process_query consults the specialists one after another in the
\* order code_expert, data_analyst, researcher, (writing_expert), tool_agent,
\* exactly those whose identifier occurs in the coordinator's first reply
\* (tool_agent only when an instruction can be extracted); the coordinator
\* is called a second time exactly when one of them responded, otherwise the
\* final answer is the first reply; the log holds the user entry, the first
\* reply, the consulted specialists in order and the final answer.
C25_ConsultationOrder ==
    /\ IsPrefix(ms_calls, <<"coordinator">> \o ToConsult \o <<"coordinator">>)
    /\ ProcessQueryDone =>
          /\ ms_calls = <<"coordinator">> \o ToConsult
                        \o (IF ToConsult # <<>> THEN <<"coordinator">> ELSE <<>>)
          /\ ToConsult = <<>> => ms_final = ms_reply
          /\ ToConsult # <<>> => ms_final = Synthesis
          /\ LogNames = <<"user", "coordinator">> \o ToConsult \o <<"coordinator">>
          /\ ms_log[1].role = "user"
          /\ ms_log[2].content = ms_reply
          /\ ms_log[Len(ms_log)].content = ms_final

\* The extended system consulted the writing expert and then the tool agent:
\* the reply began with a tool_agent instruction that names the writing expert.
C25_Witness ==
    /\ ProcessQueryDone
    /\ ms_system = "ExtendedMultiAgentSystem"
    /\ ms_calls = <<"coordinator", "writing_expert", "tool_agent", "coordinator">>
    /\ ms_reply[1] = "tool_agent"
    /\ Len(ms_log) = 5

\* ========================================================================
\* FallbackLLMClient: the token total of get_call_statistics
\* ========================================================================

\* The calls whose records are in the log file.
MaxLoggedCalls == 2

\* response.usage of the provider that answered: None, or an object whose
\* model_dump() has total_tokens.
Usages == {[reported |-> FALSE, total_tokens |-> 0]} \cup
          {[reported |-> TRUE, total_tokens |-> n] : n \in {5, 7}}

\* Lines 178-187: the attempt of the provider that answered.
SuccessAttempt(api, usage) ==
    [api_name |-> api, success |-> "True", response |-> [usage |-> usage]]

FailedAttempt(api) ==
    [api_name |-> api, success |-> "False",
     response |-> [usage |-> [reported |-> FALSE, total_tokens |-> 0]]]

\* Lines 190-194 and 213-217: the keys of final_result.
FinalResult(ok, used) ==
    [k \in IF ok THEN {"success", "used_api", "total_duration_ms"}
           ELSE {"success", "error", "total_duration_ms"} |->
        CASE k = "success" -> IF ok THEN "True" ELSE "False"
          [] k = "used_api" -> used
          [] k = "error" -> "all APIs failed"
          [] OTHER -> "1.0"]

\* The record _generate_single logs when the provider number n of the
\* fallback order answers (n = 0: none does).
TokenRecord(n, usage) ==
    IF n = 0
    THEN [attempts |-> [i \in 1..Len(fallback_order) |-> FailedAttempt(fallback_order[i])],
          final_result |-> FinalResult(FALSE, "none")]
    ELSE [attempts |-> [i \in 1..n |-> IF i = n THEN SuccessAttempt(fallback_order[i], usage)
                                        ELSE FailedAttempt(fallback_order[i])],
          final_result |-> FinalResult(TRUE, fallback_order[n])]

\* Lines 257-263: what one record adds to total_tokens.  The usage is looked
\* up under final_result["response"].
TokensCounted(call_data) ==
    IF call_data.final_result["success"] = "True"
    THEN IF "response" \in DOMAIN call_data.final_result
         THEN LET response == call_data.final_result["response"]
              IN  IF response.usage.reported THEN response.usage.total_tokens ELSE 0
         ELSE 0
    ELSE 0

RECURSIVE TotalTokens(_)
TotalTokens(lines) ==
    IF lines = <<>> THEN 0 ELSE TokensCounted(Head(lines)) + TotalTokens(Tail(lines))

TkInit ==
    /\ tk_lines = <<>>
    /\ tk_reported = <<>>
    /\ tk_stats = [done |-> FALSE, total_tokens |-> 0, calls |-> 0]

\* _generate_single with the log record written whole.
LoggedCall(n, usage) ==
    /\ Len(tk_lines) < MaxLoggedCalls
    /\ tk_lines' = Append(tk_lines, TokenRecord(n, usage))
    /\ tk_reported' = IF n = 0 THEN tk_reported
                      ELSE Append(tk_reported, IF usage.reported THEN usage.total_tokens ELSE 0)
    /\ UNCHANGED tk_stats

\* get_call_statistics()["total_tokens"]
TokenStatistics ==
    /\ tk_lines # <<>>
    /\ tk_stats' = [done |-> TRUE, total_tokens |-> TotalTokens(tk_lines),
                    calls |-> Len(tk_lines)]
    /\ UNCHANGED <<tk_lines, tk_reported>>

TkNext ==
    \/ \E n \in 0..Len(fallback_order), usage \in Usages :
           LoggedCall(n, usage) /\ UNCHANGED notTk
    \/ TokenStatistics /\ UNCHANGED notTk

\* ---- Claim about the token total ------------------------------------------

\* C26: get_call_statistics().total_tokens is the sum, over the logged calls
\* that succeeded, of the usage.total_tokens the answering provider reported
\* (0 for a provider that reported no usage).
C26_TotalTokensSumUsage ==
    (tk_stats.done /\ tk_stats.calls = Len(tk_lines)) =>
        tk_stats.total_tokens = SumSeq(tk_reported)

\* ========================================================================
\* FunctionTool and ToolSet over the module-level tool registry
\* ========================================================================

\* The names functions are registered under, and the functions.
FunctionNames == {"text_extractor", "my_function"}

\* The keyword arguments a caller may pass on to FunctionTool.
OverrideSets ==
    UNION {[D -> {"custom"}] : D \in SUBSET {"name", "description"}}

\* ToolFunctionRegistry.register, lines 61-114: the metadata of an entry.
Metadata(name) == [name |-> name, description |-> "first line of the docstring"]

\* BaseTool.__init__(self), base_tool.py line 30: it takes no keyword
\* argument, so a call with one raises TypeError.
BaseToolInit(kwargs) == IF DOMAIN kwargs = {} THEN "None" ELSE "TypeError"

\* FunctionTool.__init__(func, **kwargs), lines 1393-1409: super().__init__
\* is given the keyword arguments.
FunctionToolInit(func, kwargs) ==
    IF BaseToolInit(kwargs) # "None"
    THEN [raised |-> BaseToolInit(kwargs), func |-> "None", name |-> "None",
          description |-> "None"]
    ELSE [raised |-> "None", func |-> func,
          name |-> IF "name" \in DOMAIN kwargs THEN kwargs["name"] ELSE func,
          description |-> IF "description" \in DOMAIN kwargs THEN kwargs["description"]
                          ELSE "docstring"]

\* from_function_registry(name, **kwargs), lines 1464-1477.
FromFunctionRegistry(registry, name, kwargs) ==
    IF name \notin registry
    THEN [raised |-> "ValueError", func |-> "None", name |-> "None", description |-> "None"]
    ELSE LET metadata == Metadata(name)
             merged == [k \in DOMAIN kwargs \cup {"name", "description"} |->
                           IF k \in DOMAIN kwargs THEN kwargs[k] ELSE metadata[k]]
         IN  FunctionToolInit(name, merged)

NoRegistryCall ==
    [op |-> "none", name |-> "None", kwargs |-> [k \in {} |-> "custom"],
     registered |-> FALSE, tool |-> FunctionToolInit("None", [k \in {} |-> "custom"]),
     returned |-> FALSE, tools |-> {}]

FrInit ==
    /\ fr_registry \in SUBSET FunctionNames
    /\ fr_tools = {}
    /\ fr_call = NoRegistryCall

FrIdle ==
    /\ fr_registry = {}
    /\ fr_tools = {}
    /\ fr_call = NoRegistryCall

RegistryCallRecord(op, name, kwargs, tool, returned) ==
    [op |-> op, name |-> name, kwargs |-> kwargs, registered |-> name \in fr_registry,
     tool |-> tool, returned |-> returned, tools |-> fr_tools]

\* @register_tool / tool_registry.register(name)(func)
RegisterFunction(name) ==
    /\ fr_registry' = fr_registry \cup {name}
    /\ fr_call' = RegistryCallRecord("register", name, NoRegistryCall.kwargs,
                                     NoRegistryCall.tool, TRUE)
    /\ UNCHANGED fr_tools

\* FunctionTool.from_function_registry(name, **kwargs)
CallFromFunctionRegistry(name, kwargs) ==
    LET tool == FromFunctionRegistry(fr_registry, name, kwargs)
    IN  /\ fr_call' = RegistryCallRecord("from_function_registry", name, kwargs, tool,
                                         tool.raised = "None")
        /\ UNCHANGED <<fr_registry, fr_tools>>

\* ToolSet.add_function_tool(func, **kwargs), lines 1597-1606, and add_tool.
AddFunctionTool(func, kwargs) ==
    LET tool == FunctionToolInit(func, kwargs)
    IN  /\ fr_tools' = IF tool.raised = "None" THEN fr_tools \cup {tool.name} ELSE fr_tools
        /\ fr_call' = RegistryCallRecord("add_function_tool", func, kwargs, tool,
                                         tool.raised = "None")
        /\ UNCHANGED fr_registry

\* ToolSet.add_function_from_registry(name, **kwargs), lines 1619-1626.
AddFunctionFromRegistry(name, kwargs) ==
    LET tool == FromFunctionRegistry(fr_registry, name, kwargs)
    IN  /\ fr_tools' = IF tool.raised = "None" THEN fr_tools \cup {tool.name} ELSE fr_tools
        /\ fr_call' = RegistryCallRecord("add_function_from_registry", name, kwargs, tool,
                                         tool.raised = "None")
        /\ UNCHANGED fr_registry

FrNext ==
    \/ \E name \in FunctionNames : RegisterFunction(name) /\ UNCHANGED notFr
    \/ \E name \in FunctionNames, kwargs \in OverrideSets :
           CallFromFunctionRegistry(name, kwargs) /\ UNCHANGED notFr
    \/ \E func \in FunctionNames, kwargs \in OverrideSets :
           AddFunctionTool(func, kwargs) /\ UNCHANGED notFr
    \/ \E name \in FunctionNames, kwargs \in OverrideSets :
           AddFunctionFromRegistry(name, kwargs) /\ UNCHANGED notFr

\* ---- Claim about tools built from the registry ----------------------------

\* The value the caller asked for under the key, the registry's otherwise.
Expected(key) ==
    IF key \in DOMAIN fr_call.kwargs THEN fr_call.kwargs[key]
    ELSE Metadata(fr_call.name)[key]

\* C27: for a registered name from_function_registry returns a FunctionTool
\* that wraps the registered callable, with the registry's name and
\* description unless the caller overrides them, and
\* add_function_from_registry returns true and the tool set then holds the
\* tool; for a name that is not registered the construction fails and
\* add_function_from_registry returns false and leaves the tool set as it was.
C27_RegistryToolsConstructed ==
    /\ (fr_call.op \in {"from_function_registry", "add_function_from_registry"}
          /\ fr_call.registered) =>
          /\ fr_call.tool.raised = "None"
          /\ fr_call.tool.func = fr_call.name
          /\ fr_call.tool.name = Expected("name")
          /\ fr_call.tool.description = Expected("description")
          /\ fr_call.op = "add_function_from_registry" =>
                fr_call.returned /\ Expected("name") \in fr_tools
    /\ (fr_call.op \in {"from_function_registry", "add_function_from_registry"}
          /\ ~fr_call.registered) =>
          /\ fr_call.tool.raised # "None"
          /\ ~fr_call.returned
          /\ fr_tools = fr_call.tools

\* ========================================================================
\* WebTool: the HTTP session
\* ========================================================================

\* The sessions one tool may create.
MaxSessions == 4

\* self._session is None
NoSession == [id |-> 0, timeout |-> "None"]

\* http_config['timeout']: 30 after _initialize, or what set_http_config put there.
Timeouts == {"30", "60"}

\* aiohttp.ClientSession(timeout=.., headers=..), lines 68-71.
NewSession(n, timeout) == [id |-> n, timeout |-> timeout]

\* A tool that opens a session on every request for one.
NeedsNewSessionAlways(session, open) == TRUE

\* Line 67: self._session is None or self._session.closed
NeedsNewSession(session, open) == session = NoSession \/ session \notin open

\* Line 78: self._session and not self._session.closed
HasOpenSession(session, open) == session # NoSession /\ session \in open

WsInit ==
    /\ ws_session = NoSession
    /\ ws_open = {}
    /\ ws_created = 0
    /\ ws_timeout = "30"
    /\ ws_call = [op |-> "none", session |-> NoSession, open |-> {}, returned |-> NoSession]

\* _get_session(), lines 67-72.
GetSession ==
    IF NeedsNewSession(ws_session, ws_open)
    THEN /\ ws_created < MaxSessions
         /\ ws_created' = ws_created + 1
         /\ ws_session' = NewSession(ws_created + 1, ws_timeout)
         /\ ws_open' = ws_open \cup {NewSession(ws_created + 1, ws_timeout)}
         /\ ws_call' = [op |-> "_get_session", session |-> ws_session, open |-> ws_open,
                        returned |-> NewSession(ws_created + 1, ws_timeout)]
         /\ UNCHANGED ws_timeout
    ELSE /\ ws_call' = [op |-> "_get_session", session |-> ws_session, open |-> ws_open,
                        returned |-> ws_session]
         /\ UNCHANGED <<ws_session, ws_open, ws_created, ws_timeout>>

\* close_session(), lines 78-80.
CloseSession ==
    /\ IF HasOpenSession(ws_session, ws_open)
       THEN /\ ws_open' = ws_open \ {ws_session}
            /\ ws_session' = NoSession
       ELSE UNCHANGED <<ws_session, ws_open>>
    /\ ws_call' = [op |-> "close_session", session |-> ws_session, open |-> ws_open,
                   returned |-> NoSession]
    /\ UNCHANGED <<ws_created, ws_timeout>>

\* A caller closes the session it was handed (or the connector goes down):
\* the tool keeps the reference to a closed session.
SessionClosedOutside ==
    /\ ws_session \in ws_open
    /\ ws_open' = ws_open \ {ws_session}
    /\ ws_call' = [op |-> "closed_outside", session |-> ws_session, open |-> ws_open,
                   returned |-> NoSession]
    /\ UNCHANGED <<ws_session, ws_created, ws_timeout>>

\* set_http_config(config), line 89: a session that exists keeps its timeout.
SetHttpConfig(timeout) ==
    /\ ws_timeout' = timeout
    /\ ws_call' = [op |-> "set_http_config", session |-> ws_session, open |-> ws_open,
                   returned |-> NoSession]
    /\ UNCHANGED <<ws_session, ws_open, ws_created>>

WsNext ==
    \/ GetSession /\ UNCHANGED notWs
    \/ CloseSession /\ UNCHANGED notWs
    \/ SessionClosedOutside /\ UNCHANGED notWs
    \/ \E timeout \in Timeouts : SetHttpConfig(timeout) /\ UNCHANGED notWs

\* ---- Claim about the session ----------------------------------------------

\* C28: a WebTool owns at most one open session at any time; _get_session
\* returns the existing session when one is open and creates a new one only
\* when there is none or it is closed; close_session closes the open session
\* and leaves the tool without a session; close_session with no open session
\* changes nothing.
C28_AtMostOneOpenSession ==
    /\ Cardinality(ws_open) <= 1
    /\ ws_open \subseteq {ws_session}
    /\ ws_call.op = "_get_session" =>
          /\ ws_call.returned = ws_session
          /\ ws_session \in ws_open
          /\ ws_call.session \in ws_call.open =>
                ws_session = ws_call.session /\ ws_open = ws_call.open
          /\ ws_call.session \notin ws_call.open =>
                ws_session # ws_call.session /\ ws_session.id = ws_created
    /\ ws_call.op = "close_session" =>
          /\ ws_open = {}
          /\ ws_call.session \in ws_call.open => ws_session = NoSession
          /\ ws_call.session \notin ws_call.open =>
                ws_session = ws_call.session /\ ws_open = ws_call.open

\* A session was closed outside the tool, a second one was created for the
\* next request and closed by close_session, and a third one is open.
C28_Witness ==
    /\ ws_call.op = "_get_session"
    /\ ws_created = 3
    /\ ws_session.id = 3
    /\ ws_open = {ws_session}
    /\ ws_call.session = NoSession

\* ========================================================================
\* Specifications
\* ========================================================================

InitFallback == FbInit /\ AgIdle /\ TlInit /\ CmdInit /\ FsInit /\ UaIdle /\ RegInit /\ LlmIdle /\ DbIdle /\ McInit /\ CalcIdle /\ ExIdle /\ CbInit /\ OpIdle /\ CvIdle /\ TaIdle /\ MsIdle /\ TkInit /\ FrIdle /\ WsInit
SpecFallback == InitFallback /\ [][FbNext]_vars

InitHistory == FbInit /\ AgInit /\ TlInit /\ CmdInit /\ FsInit /\ UaIdle /\ RegInit /\ LlmIdle /\ DbIdle /\ McInit /\ CalcIdle /\ ExIdle /\ CbInit /\ OpIdle /\ CvIdle /\ TaIdle /\ MsIdle /\ TkInit /\ FrIdle /\ WsInit
SpecHistory == InitHistory /\ [][HistoryNext]_vars

InitState == FbInit /\ AgIdle /\ TlInit /\ CmdInit /\ FsInit /\ UaIdle /\ RegInit /\ LlmIdle /\ DbIdle /\ McInit /\ CalcIdle /\ ExIdle /\ CbInit /\ OpIdle /\ CvIdle /\ TaIdle /\ MsIdle /\ TkInit /\ FrIdle /\ WsInit
SpecState == InitState /\ [][StateNext]_vars

InitExecute == FbInit /\ AgIdle /\ TlInit /\ CmdInit /\ FsInit /\ UaIdle /\ RegInit /\ LlmIdle /\ DbIdle /\ McInit /\ CalcIdle /\ ExIdle /\ CbInit /\ OpIdle /\ CvIdle /\ TaIdle /\ MsIdle /\ TkInit /\ FrIdle /\ WsInit
SpecExecute == InitExecute /\ [][ExecuteNext]_vars

InitToolResult == FbInit /\ AgIdle /\ TlInit /\ CmdInit /\ FsInit /\ UaIdle /\ RegInit /\ LlmIdle /\ DbIdle /\ McInit /\ CalcIdle /\ ExIdle /\ CbInit /\ OpIdle /\ CvIdle /\ TaIdle /\ MsIdle /\ TkInit /\ FrIdle /\ WsInit
SpecToolResult == InitToolResult /\ [][ToolResultNext]_vars

InitCommand == FbInit /\ AgIdle /\ TlInit /\ CmdInit /\ FsInit /\ UaIdle /\ RegInit /\ LlmIdle /\ DbIdle /\ McInit /\ CalcIdle /\ ExIdle /\ CbInit /\ OpIdle /\ CvIdle /\ TaIdle /\ MsIdle /\ TkInit /\ FrIdle /\ WsInit
SpecCommand == InitCommand /\ [][CmdNext]_vars

InitFileSystem == FbInit /\ AgIdle /\ TlInit /\ CmdInit /\ FsInit /\ UaIdle /\ RegInit /\ LlmIdle /\ DbIdle /\ McInit /\ CalcIdle /\ ExIdle /\ CbInit /\ OpIdle /\ CvIdle /\ TaIdle /\ MsIdle /\ TkInit /\ FrIdle /\ WsInit
SpecFileSystem == InitFileSystem /\ [][FsNext]_vars

InitUser == FbInit /\ AgIdle /\ TlInit /\ CmdInit /\ FsInit /\ UaInit /\ RegInit /\ LlmIdle /\ DbIdle /\ McInit /\ CalcIdle /\ ExIdle /\ CbInit /\ OpIdle /\ CvIdle /\ TaIdle /\ MsIdle /\ TkInit /\ FrIdle /\ WsInit
SpecUser == InitUser /\ [][UaNext]_vars

InitHybrid == FbInit /\ AgIdle /\ TlInit /\ CmdInit /\ FsInit /\ UaIdle /\ RegInit /\ LlmIdle /\ DbIdle /\ McInit /\ CalcIdle /\ ExIdle /\ CbInit /\ OpIdle /\ CvIdle /\ TaIdle /\ MsIdle /\ TkInit /\ FrIdle /\ WsInit
SpecHybrid == InitHybrid /\ [][HybridNext]_vars

InitRegistry == FbInit /\ AgIdle /\ TlInit /\ CmdInit /\ FsInit /\ UaIdle /\ RegInit /\ LlmIdle /\ DbIdle /\ McInit /\ CalcIdle /\ ExIdle /\ CbInit /\ OpIdle /\ CvIdle /\ TaIdle /\ MsIdle /\ TkInit /\ FrIdle /\ WsInit
SpecRegistry == InitRegistry /\ [][RegNext]_vars

InitLlm == FbInit /\ AgIdle /\ TlInit /\ CmdInit /\ FsInit /\ UaIdle /\ RegInit /\ LlmInit /\ DbIdle /\ McInit /\ CalcIdle /\ ExIdle /\ CbInit /\ OpIdle /\ CvIdle /\ TaIdle /\ MsIdle /\ TkInit /\ FrIdle /\ WsInit
SpecLlm == InitLlm /\ [][LlmNext]_vars

InitDoubao == FbInit /\ AgIdle /\ TlInit /\ CmdInit /\ FsInit /\ UaIdle /\ RegInit /\ LlmIdle /\ DbInit /\ McInit /\ CalcIdle /\ ExIdle /\ CbInit /\ OpIdle /\ CvIdle /\ TaIdle /\ MsIdle /\ TkInit /\ FrIdle /\ WsInit
SpecDoubao == InitDoubao /\ [][DbNext]_vars

InitClients == FbInit /\ AgIdle /\ TlInit /\ CmdInit /\ FsInit /\ UaIdle /\ RegInit /\ LlmIdle /\ DbIdle /\ McInit /\ CalcIdle /\ ExIdle /\ CbInit /\ OpIdle /\ CvIdle /\ TaIdle /\ MsIdle /\ TkInit /\ FrIdle /\ WsInit
SpecClients == InitClients /\ [][McNext]_vars

InitCalc == FbInit /\ AgIdle /\ TlInit /\ CmdInit /\ FsInit /\ UaIdle /\ RegInit /\ LlmIdle /\ DbIdle /\ McInit /\ CalcInit /\ ExIdle /\ CbInit /\ OpIdle /\ CvIdle /\ TaIdle /\ MsIdle /\ TkInit /\ FrIdle /\ WsInit
SpecCalc == InitCalc /\ [][CalcNext]_vars

InitExtract == FbInit /\ AgIdle /\ TlInit /\ CmdInit /\ FsInit /\ UaIdle /\ RegInit /\ LlmIdle /\ DbIdle /\ McInit /\ CalcIdle /\ ExInit /\ CbInit /\ OpIdle /\ CvIdle /\ TaIdle /\ MsIdle /\ TkInit /\ FrIdle /\ WsInit
SpecExtract == InitExtract /\ [][ExNext]_vars


InitCallbacks == FbInit /\ AgIdle /\ TlInit /\ CmdInit /\ FsInit /\ UaIdle /\ RegInit /\ LlmIdle /\ DbIdle /\ McInit /\ CalcIdle /\ ExIdle /\ CbInit /\ OpIdle /\ CvIdle /\ TaIdle /\ MsIdle /\ TkInit /\ FrIdle /\ WsInit
SpecCallbacks == InitCallbacks /\ [][CallbackNext]_vars


InitOperations == FbInit /\ AgIdle /\ TlInit /\ CmdInit /\ FsInit /\ UaIdle /\ RegInit /\ LlmIdle /\ DbIdle /\ McInit /\ CalcIdle /\ ExIdle /\ CbInit /\ OpInit /\ CvIdle /\ TaIdle /\ MsIdle /\ TkInit /\ FrIdle /\ WsInit
SpecOperations == InitOperations /\ [][OpNext]_vars


InitConversations == FbInit /\ AgIdle /\ TlInit /\ CmdInit /\ FsInit /\ UaIdle /\ RegInit /\ LlmIdle /\ DbIdle /\ McInit /\ CalcIdle /\ ExIdle /\ CbInit /\ OpIdle /\ CvInit /\ TaIdle /\ MsIdle /\ TkInit /\ FrIdle /\ WsInit
SpecConversations == InitConversations /\ [][CvNext]_vars


InitToolAgent == FbInit /\ AgIdle /\ TlInit /\ CmdInit /\ FsInit /\ UaIdle /\ RegInit /\ LlmIdle /\ DbIdle /\ McInit /\ CalcIdle /\ ExIdle /\ CbInit /\ OpIdle /\ CvIdle /\ TaInit /\ MsIdle /\ TkInit /\ FrIdle /\ WsInit
SpecToolAgent == InitToolAgent /\ [][TaNext]_vars


InitMultiAgent == FbInit /\ AgIdle /\ TlInit /\ CmdInit /\ FsInit /\ UaIdle /\ RegInit /\ LlmIdle /\ DbIdle /\ McInit /\ CalcIdle /\ ExIdle /\ CbInit /\ OpIdle /\ CvIdle /\ TaIdle /\ MsInit /\ TkInit /\ FrIdle /\ WsInit
SpecMultiAgent == InitMultiAgent /\ [][MsNext]_vars


InitTokens == FbInit /\ AgIdle /\ TlInit /\ CmdInit /\ FsInit /\ UaIdle /\ RegInit /\ LlmIdle /\ DbIdle /\ McInit /\ CalcIdle /\ ExIdle /\ CbInit /\ OpIdle /\ CvIdle /\ TaIdle /\ MsIdle /\ TkInit /\ FrIdle /\ WsInit
SpecTokens == InitTokens /\ [][TkNext]_vars


InitRegistryTools == FbInit /\ AgIdle /\ TlInit /\ CmdInit /\ FsInit /\ UaIdle /\ RegInit /\ LlmIdle /\ DbIdle /\ McInit /\ CalcIdle /\ ExIdle /\ CbInit /\ OpIdle /\ CvIdle /\ TaIdle /\ MsIdle /\ TkInit /\ FrInit /\ WsInit
SpecRegistryTools == InitRegistryTools /\ [][FrNext]_vars


InitWebTool == FbInit /\ AgIdle /\ TlInit /\ CmdInit /\ FsInit /\ UaIdle /\ RegInit /\ LlmIdle /\ DbIdle /\ McInit /\ CalcIdle /\ ExIdle /\ CbInit /\ OpIdle /\ CvIdle /\ TaIdle /\ MsIdle /\ TkInit /\ FrIdle /\ WsInit
SpecWebTool == InitWebTool /\ [][WsNext]_vars

====
